---- MODULE Spec2Model ----
(***************************************************************************)
(* The event bus (EventBus) and the reactive state store (StateManager)    *)
(* of src/assets/scripts/eventBus.js, modelled operation by operation.     *)
(*                                                                         *)
(* JavaScript values are tagged records, objects live in a heap and are    *)
(* referred to by reference, a Map or a Set is a sequence in insertion     *)
(* order.  Every operation is an operator from a world record (the fields  *)
(* of the two singletons plus what an observer such as jest.fn() records)  *)
(* to the world after the call; an action applies one operation to the     *)
(* variables.  An exception in flight is the field "thrown".               *)
(***************************************************************************)
EXTENDS Integers, Sequences, FiniteSets, TLC

\* ------------------------------------------------------------------ bounds
\* Number of top-level calls made on the bus, or on the store, in a run.
MaxOps == 3

\* ------------------------------------------------------- JavaScript values
Undefined == [t |-> "undefined"]
Null == [t |-> "null"]
Bool(b) == [t |-> "boolean", v |-> b]
Num(n) == [t |-> "number", v |-> n]
Str(s) == [t |-> "string", v |-> s]
Obj(r) == [t |-> "object", ref |-> r]
Fn(name) == [t |-> "function", name |-> name]

\* typeof v === 'function'
IsFunction(v) == v.t = "function"

\* typeof v === 'object' (null included, as in JavaScript)
IsObjectType(v) == v.t \in {"object", "null"}

\* ToBoolean(v): what `!v`, `v || d` and `v && x` test
Truthy(v) ==
  CASE v.t = "undefined" -> FALSE
    [] v.t = "null" -> FALSE
    [] v.t = "boolean" -> v.v
    [] v.t = "number" -> v.v # 0
    [] v.t = "string" -> v.v # ""
    [] OTHER -> TRUE

\* a || d
OrElse(a, d) == IF Truthy(a) THEN a ELSE d

\* a default parameter `p = d`: d replaces an omitted or undefined argument
Default(a, d) == IF a = Undefined THEN d ELSE a

\* const x = e; ...: e is evaluated once and the statements that follow,
\* F, read the result.
Then(x, F(_)) == F(x)

\* ------------------------------------------- Map and Set, insertion ordered
\* A Map is a sequence of entries [k, v]; a Set of objects is a sequence.
MapHas(m, k) == \E i \in DOMAIN m : m[i].k = k
MapGet(m, k) == m[CHOOSE i \in DOMAIN m : m[i].k = k].v
MapSet(m, k, v) ==
  IF MapHas(m, k)
  THEN [i \in DOMAIN m |-> IF m[i].k = k THEN [k |-> k, v |-> v] ELSE m[i]]
  ELSE Append(m, [k |-> k, v |-> v])
MapDelete(m, k) == SelectSeq(m, LAMBDA en : en.k # k)
MapKeys(m) == [i \in DOMAIN m |-> m[i].k]

\* Set.prototype.delete(object): by identity, which is the field id
SetDelete(s, obj) == SelectSeq(s, LAMBDA x : x.id # obj.id)

\* The position of the first handler whose callback is `callback`, 0 if none:
\* the for..of loops of off, offOnce and unsubscribe stop at the first match.
FirstMatch(s, callback) ==
  IF \E i \in DOMAIN s : s[i].callback = callback
  THEN CHOOSE i \in DOMAIN s :
         /\ s[i].callback = callback
         /\ \A j \in 1..(i - 1) : s[j].callback # callback
  ELSE 0

RemoveAt(s, i) == [j \in 1..(Len(s) - 1) |-> IF j < i THEN s[j] ELSE s[j + 1]]

\* ------------------------------------------------------------ BaseComponent
\* The fields of a component after the assignments of its constructor
\* (BaseComponent.js 10-16), with what the observer needs besides:
\*   raises    the lifecycle hook that the subclass makes raise, or "none"
\*   attached  the listeners attached to the DOM targets, in order
\*   calls     the init() and destroy() calls made so far, each with the
\*             position where it is suspended
\*   wrapped   the number of wrappedHandler closures made so far
\*   added     the top-level call that last added a listener or a subscription
\*   kind      "base" for a component that overrides no hook, "hero" for a
\*             HeroComponent, whose own fields are in hero
\* The fields of a HeroComponent (Blog.js 52-58) that the typing animation
\* uses: typingText is whether setup has found the element, typingTimeout is
\* the timer id kept (0 for null), timers are the pending timers of the page
\* that the component has set, each with what it runs.
NoHero ==
  [typingText |-> FALSE, currentPhraseIndex |-> 0, currentCharIndex |-> 0,
   isDeleting |-> FALSE, typingTimeout |-> 0, timers |-> {}, nextTimer |-> 1]
NoComponent ==
  [isInitialized |-> FALSE, isDestroyed |-> FALSE, eventListeners |-> <<>>,
   stateSubscriptions |-> <<>>, raises |-> "none", attached |-> <<>>, calls |-> <<>>,
   wrapped |-> 0, added |-> 0, kind |-> "base", hero |-> NoHero]

\* --------------------------------------------------------------- the world
VARIABLES
  events,       \* EventBus.events: Map name -> Set of handlers
  onceEvents,   \* EventBus.onceEvents: Map name -> Set of handlers
  state,        \* StateManager.state: the root object, key -> value
  heap,         \* the objects reachable from state and from history
  subscribers,  \* StateManager.subscribers: Map path -> Set of subscriptions
  history,      \* StateManager.history
  notify,       \* StateManager._notifySubscribers: <<>> is the method of the
                \* class, otherwise the stack of the changedKeys sets of the
                \* batch calls that have overridden it
  nextId,       \* identity of the next handler or subscription object
  log,          \* what the callbacks and console.error recorded, in order
  regs,         \* for every handler or subscription object: how it was made
  lastOp,       \* the last top-level call and how it ended
  n,            \* number of top-level calls made so far
  comp          \* one BaseComponent and the DOM targets it listens to

vars == <<events, onceEvents, state, heap, subscribers, history, notify,
          nextId, log, regs, lastOp, n, comp>>

World ==
  [events |-> events, onceEvents |-> onceEvents, state |-> state,
   heap |-> heap, subscribers |-> subscribers, history |-> history,
   notify |-> notify, nextId |-> nextId, log |-> log, regs |-> regs,
   n |-> n, comp |-> comp, thrown |-> FALSE]

\* throw new Error(...)
Throw(w) == [w EXCEPT !.thrown = TRUE]

\* console.error(...) in a catch block: the exception is consumed
CatchAndLog(w, where, key) ==
  [w EXCEPT !.thrown = FALSE,
            !.log = Append(@, [type |-> "error", where |-> where, key |-> key, n |-> w.n])]

\* The observer's record of the creation of a handler/subscription object:
\* regs[id] tells how, and in which top-level call, object id was made, and
\* in which call it was removed explicitly (0: not so far).
Registered(w, kind, key, obj) ==
  [w EXCEPT !.regs = Append(@, [id |-> obj.id, kind |-> kind, key |-> key,
                                 obj |-> obj, at |-> w.n, removed |-> 0])]

\* Marks in the log, for the observer: setState has written (before it
\* notifies), and the try block of batch has been left.
MarkWrite(w, key, silent) ==
  [w EXCEPT !.log = Append(@, [type |-> "write", key |-> key, silent |-> silent, n |-> w.n])]
MarkFinally(w) ==
  [w EXCEPT !.log = Append(@, [type |-> "finally", raised |-> w.thrown, n |-> w.n])]

\* The observer's record of explicit removals: the objects that were in the
\* Map `before` under `key` and are no longer in `after`.
Ids(m, k) == IF MapHas(m, k) THEN {MapGet(m, k)[i].id : i \in DOMAIN MapGet(m, k)} ELSE {}
AllIds(m) == UNION {Ids(m, m[i].k) : i \in DOMAIN m}
MarkRemoved(w, gone) ==
  [w EXCEPT !.regs = [i \in DOMAIN @ |->
      IF @[i].id \in gone /\ @[i].removed = 0 THEN [@[i] EXCEPT !.removed = w.n] ELSE @[i]]]

\* --------------------------------------------- StateManager: the state tree
\* eventBus.js 440
maxHistoryLength == 50

\* An object of the heap: an object literal or an array, with its properties.
Cell(kind, props) == [kind |-> kind, props |-> props]
NoProps == [k \in {} |-> Undefined]

\* The root object this.state is reference 0; it is held in `state`.
Root == Obj(0)
Props(w, ref) == IF ref = 0 THEN w.state ELSE w.heap[ref].props

\* obj[prop] for an own data property.  A primitive has no own property; the
\* segments used here name no inherited one (length, constructor, ...).
GetProp(w, obj, prop) ==
  IF obj.t = "object"
  THEN IF prop \in DOMAIN Props(w, obj.ref) THEN Props(w, obj.ref)[prop] ELSE Undefined
  ELSE Undefined

\* obj[prop] = value
SetProp(w, ref, prop, value) ==
  LET props == Props(w, ref)
      new == [k \in DOMAIN props \cup {prop} |-> IF k = prop THEN value ELSE props[k]]
  IN IF ref = 0 THEN [w EXCEPT !.state = new]
     ELSE [w EXCEPT !.heap[ref].props = new]

\* The state of the constructor (eventBus.js 407-436) and of _getInitialState
\* (678-696): six nested objects, allocated at heap[base + 1 .. base + 6].
InitialObjects ==
  << Cell("Array", NoProps), Cell("Array", NoProps), Cell("Array", NoProps),
     Cell("Array", NoProps), Cell("Object", NoProps),
     Cell("Object", [k \in {"reducedMotion", "highContrast", "fontSize"} |->
        CASE k = "reducedMotion" -> Bool(FALSE)
          [] k = "highContrast" -> Bool(FALSE)
          [] OTHER -> Str("normal")]) >>

InitialKeys ==
  {"isLoading", "currentSection", "theme", "navigationVisible", "mobileMenuOpen",
   "skills", "projects", "blogPosts", "experience", "modalOpen", "modalContent",
   "performanceMetrics", "preferences"}

InitialRoot(base) ==
  [k \in InitialKeys |->
    CASE k = "isLoading" -> Bool(FALSE)
      [] k = "currentSection" -> Str("hero")
      [] k = "theme" -> Str("dark")
      [] k = "navigationVisible" -> Bool(TRUE)
      [] k = "mobileMenuOpen" -> Bool(FALSE)
      [] k = "skills" -> Obj(base + 1)
      [] k = "projects" -> Obj(base + 2)
      [] k = "blogPosts" -> Obj(base + 3)
      [] k = "experience" -> Obj(base + 4)
      [] k = "modalOpen" -> Bool(FALSE)
      [] k = "modalContent" -> Null
      [] k = "performanceMetrics" -> Obj(base + 5)
      [] OTHER -> Obj(base + 6)]

\* path.split('.') on the path strings the model uses
split(path) ==
  CASE path = "preferences.reducedMotion" -> <<"preferences", "reducedMotion">>
    [] path = "preferences.fontSize" -> <<"preferences", "fontSize">>
    [] path = "theme.mode" -> <<"theme", "mode">>
    [] path = "a.b" -> <<"a", "b">>
    [] path = "a.b.c" -> <<"a", "b", "c">>
    [] OTHER -> <<path>>

\* keys.reduce((obj, prop) => obj && obj[prop] !== undefined ? obj[prop] : undefined, start)
RECURSIVE ReducePath(_, _, _)
ReducePath(w, obj, keys) ==
  IF Len(keys) = 0 THEN obj
  ELSE ReducePath(w,
         IF Truthy(obj) /\ GetProp(w, obj, Head(keys)) # Undefined
         THEN GetProp(w, obj, Head(keys)) ELSE Undefined,
         Tail(keys))

\* eventBus.js 449-455, for a non-empty key (getState() returns a copy of the root)
getState(w, key) == ReducePath(w, Root, split(key))

\* The reduce of _setNestedValue (500-505): walks from object `ref` along
\* keys, putting a fresh {} where the property is falsy or no object; gives
\* the world and the reference of the object reached.
RECURSIVE Descend(_, _, _)
\* Mutant: the segment is replaced by a fresh {} whatever it holds.
Descend_Overwrite(w, ref, keys) ==
  IF Len(keys) = 0 THEN [w |-> w, ref |-> ref]
  ELSE
    LET w1 == [w EXCEPT !.heap = Append(@, Cell("Object", NoProps))]
        fresh == Len(w1.heap)
    IN Descend(SetProp(w1, ref, Head(keys), Obj(fresh)), fresh, Tail(keys))

Descend(w, ref, keys) ==
  IF Len(keys) = 0 THEN [w |-> w, ref |-> ref]
  ELSE
    LET cur == GetProp(w, Obj(ref), Head(keys))
    IN IF ~Truthy(cur) \/ ~IsObjectType(cur)
       THEN LET w1 == [w EXCEPT !.heap = Append(@, Cell("Object", NoProps))]
                fresh == Len(w1.heap)
            IN Descend(SetProp(w1, ref, Head(keys), Obj(fresh)), fresh, Tail(keys))
       ELSE Descend(w, cur.ref, Tail(keys))

\* Mutant: the value is stored under the last segment of the root object.
_setNestedValue_Flat(w, path, value) ==
  SetProp(w, 0, split(path)[Len(split(path))], value)

\* eventBus.js 497-508
_setNestedValue(w, path, value) ==
  LET keys == split(path)
      lastKey == keys[Len(keys)]
      d == Descend(w, 0, SubSeq(keys, 1, Len(keys) - 1))
  IN SetProp(d.w, d.ref, lastKey, value)

\* Mutant: pop instead of shift, the newest entry is the one dropped.
_addToHistory_Pop(w, oldState, newState) ==
  LET pushed == Append(w.history, [oldState |-> oldState, newState |-> newState])
  IN [w EXCEPT !.history = IF Len(pushed) > maxHistoryLength
                            THEN SubSeq(pushed, 1, Len(pushed) - 1) ELSE pushed]

\* eventBus.js 619-630 (the timestamp, Date.now(), is left out of the entry)
_addToHistory(w, oldState, newState) ==
  LET pushed == Append(w.history, [oldState |-> oldState, newState |-> newState])
  IN [w EXCEPT !.history = IF Len(pushed) > maxHistoryLength THEN Tail(pushed) ELSE pushed]

\* `${value}`: ToString of a value inside a template literal.
ToStr(w, v) ==
  CASE v.t = "undefined" -> "undefined"
    [] v.t = "null" -> "null"
    [] v.t = "boolean" -> IF v.v THEN "true" ELSE "false"
    [] v.t = "number" -> ToString(v.v)
    [] v.t = "string" -> v.v
    [] v.t = "object" -> IF w.heap[v.ref].kind = "Array" /\ DOMAIN w.heap[v.ref].props = {}
                         THEN "" ELSE "[object Object]"
    [] OTHER -> "function"

\* computeFn(...inputs) for the functions handed to computed:
\*   "template": (a, b) => `${a} ${b}`  (the fullName of stateManager.test.js)
\*   "first":    (a) => a
ApplyFn(w, computeFn, inputs) ==
  CASE computeFn = "template" -> Str(ToStr(w, inputs[1]) \o " " \o ToStr(w, inputs[2]))
    [] OTHER -> inputs[1]

\* Marks the return of updateComputed in the log, for the observer.
MarkReturn(w, key) ==
  [w EXCEPT !.log = Append(@, [type |-> "return", key |-> key, n |-> w.n])]

\* this.setState(targetKey, result, true) for a path targetKey: the statements
\* of setState that run when key is a string and silent is true (eventBus.js
\* 464, 473, 477; the test of line 484 fails).
setStateSilently(w, key, value) ==
  LET oldState == w.state
      w1 == _setNestedValue(w, key, value)
  IN MarkWrite(_addToHistory(w1, oldState, w1.state), Str(key), TRUE)

\* eventBus.js 706-710
updateComputed(w, f) ==
  LET inputs == [i \in DOMAIN f.dependencies |-> getState(w, f.dependencies[i])]
      result == ApplyFn(w, f.computeFn, inputs)
  IN MarkReturn(setStateSilently(w, f.targetKey, result), f.targetKey)

\* ------------------------------------------- HeroComponent: typing animation
\* The lengths of config.phrases (Blog.js 67-82), cut down to two short phrases.
PhraseLengths == <<2, 1>>

\* this.typingTimeout = setTimeout(run, delay)
setTypingTimeout(w, run) ==
  [w EXCEPT !.comp.hero.timers = @ \cup {[id |-> w.comp.hero.nextTimer, run |-> run]},
            !.comp.hero.typingTimeout = w.comp.hero.nextTimer,
            !.comp.hero.nextTimer = @ + 1]

\* if (this.typingTimeout) { clearTimeout(this.typingTimeout); this.typingTimeout = null; }
clearTypingTimeout(w) ==
  IF w.comp.hero.typingTimeout = 0 THEN w
  ELSE [w EXCEPT !.comp.hero.timers = {t \in @ : t.id # w.comp.hero.typingTimeout},
                 !.comp.hero.typingTimeout = 0]

\* Blog.js 217-247.  The assignment to this.typingText.textContent raises a
\* TypeError while typingText is null.
typeText(w) ==
  LET h == w.comp.hero
      length == PhraseLengths[h.currentPhraseIndex + 1]
  IN IF h.isDeleting
     THEN IF ~h.typingText THEN Throw([w EXCEPT !.comp.hero.currentCharIndex = @ - 1])
          ELSE IF h.currentCharIndex - 1 = 0
          THEN setTypingTimeout(
                 [w EXCEPT !.comp.hero.currentCharIndex = 0,
                           !.comp.hero.isDeleting = FALSE,
                           !.comp.hero.currentPhraseIndex = (@ + 1) % Len(PhraseLengths)],
                 "typeText")
          ELSE setTypingTimeout([w EXCEPT !.comp.hero.currentCharIndex = @ - 1], "typeText")
     ELSE IF ~h.typingText THEN Throw([w EXCEPT !.comp.hero.currentCharIndex = @ + 1])
          ELSE IF h.currentCharIndex + 1 = length
          THEN setTypingTimeout([w EXCEPT !.comp.hero.currentCharIndex = @ + 1], "pause")
          ELSE setTypingTimeout([w EXCEPT !.comp.hero.currentCharIndex = @ + 1], "typeText")

\* Blog.js 210-212
startTypingAnimation(w) == typeText(w)

\* Blog.js 181-193; showStaticText (198-205) changes the page only
initializeTypingAnimation(w) ==
  IF ~w.comp.hero.typingText THEN w
  ELSE IF Truthy(getState(w, "preferences.reducedMotion")) THEN w
  ELSE startTypingAnimation(w)

\* Blog.js 297-307
handleSectionChange(w, currentSection) ==
  IF currentSection = Str("hero") /\ w.comp.hero.typingTimeout = 0
  THEN startTypingAnimation(w)
  ELSE IF currentSection # Str("hero") /\ w.comp.hero.typingTimeout # 0
  THEN clearTypingTimeout(w)
  ELSE w

\* Blog.js 312-332
handleReducedMotion(w, reducedMotion) ==
  IF Truthy(reducedMotion) THEN clearTypingTimeout(w)
  ELSE IF getState(w, "currentSection") = Str("hero") THEN initializeTypingAnimation(w)
  ELSE w

\* Blog.js 417-422
pauseTyping(w) == clearTypingTimeout(w)

\* Blog.js 427-431
resumeTyping(w) ==
  IF w.comp.hero.typingTimeout = 0 /\ ~Truthy(getState(w, "preferences.reducedMotion"))
  THEN startTypingAnimation(w)
  ELSE w

\* A pending timer fires: it is no longer pending and its function runs, which
\* is typeText or the arrow function of Blog.js 239-242.
timerFires(w, t) ==
  typeText([w EXCEPT !.comp.hero.timers = @ \ {t},
                     !.comp.hero.isDeleting = IF t.run = "pause" THEN TRUE ELSE @])

\* this.handleSectionChange.bind(this) and this.handleReducedMotion.bind(this)
HeroHandler(name) == [t |-> "function", name |-> "hero", handler |-> name]
IsHeroHandler(callback) == callback.t = "function" /\ callback.name = "hero"

\* --------------------------------------------------------------- callbacks
\* What a callback does when it is invoked.  cbA and cbB return normally,
\* cbThrow raises (the errorCallback of eventBus.test.js).
CallbackThrows(callback) == callback = Fn("cbThrow")

\* The closure updateComputed made by one call of computed (eventBus.js
\* 706-710): it holds computeFn, dependencies and targetKey; `closure` is its
\* identity, two calls of computed make two closures.
UpdateComputed(closure, computeFn, dependencies, targetKey) ==
  [t |-> "function", name |-> "updateComputed", closure |-> closure,
   computeFn |-> computeFn, dependencies |-> dependencies, targetKey |-> targetKey]

IsUpdateComputed(callback) == callback.t = "function" /\ callback.name = "updateComputed"

\* A callback whose body is one call on the bus or on the store, `does`:
\*   always:    () => { <does> }
\*   firstCall: let done = false; () => { if (!done) { done = true; <does> } }
Calls(guard, does) == [t |-> "function", name |-> "calls", guard |-> guard, does |-> does]

IsCalls(callback) == callback.t = "function" /\ callback.name = "calls"

\* Whether the body of the callback runs at this invocation: `done` is set
\* exactly when the function has been invoked before.
BodyRuns(w, callback) ==
  \/ callback.guard = "always"
  \/ ~\E i \in DOMAIN w.log : w.log[i].type = "call" /\ w.log[i].callback = callback

\* The call made by the body of a Calls callback, defined with the operations.
RECURSIVE Reenter(_, _)

\* Marks in the log that a Calls callback has been left, returning or
\* raising, for the observer.
MarkReturned(w, obj) ==
  [w EXCEPT !.log = Append(@, [type |-> "returned", id |-> obj.id, raised |-> w.thrown,
                                n |-> w.n])]

\* callback.call(context, ...args) / callback(...args): jest.fn() records the
\* call, then the body runs.
Invoke(w, obj, args) ==
  LET w1 == [w EXCEPT !.log = Append(@, [type |-> "call", id |-> obj.id,
                                          callback |-> obj.callback,
                                          this |-> obj.context,
                                          args |-> args, n |-> w.n])]
  IN IF CallbackThrows(obj.callback) THEN Throw(w1)
     ELSE IF IsUpdateComputed(obj.callback) THEN updateComputed(w1, obj.callback)
     ELSE IF IsCalls(obj.callback)
     THEN IF BodyRuns(w, obj.callback) THEN Reenter(w1, obj) ELSE MarkReturned(w1, obj)
     ELSE IF IsHeroHandler(obj.callback)
     THEN IF obj.callback.handler = "handleSectionChange"
          THEN handleSectionChange(w1, args[1])
          ELSE handleReducedMotion(w1, args[1])
     ELSE w1

\* ---------------------------------------------------------------- EventBus
\* Mutant: the bucket is created before the callback is checked.
on_BucketFirst(w, event, callback, options) ==
  LET w1 == IF ~MapHas(w.events, event)
            THEN [w EXCEPT !.events = MapSet(@, event, <<>>)] ELSE w
      handler == [id |-> w.nextId,
                  callback |-> callback,
                  context |-> OrElse(options.context, Null),
                  priority |-> OrElse(options.priority, Num(0)),
                  once |-> FALSE]
  IN IF ~IsFunction(callback) THEN Throw(w1)
     ELSE Registered(
            [w1 EXCEPT !.events = MapSet(@, event, Append(MapGet(w1.events, event), handler)),
                       !.nextId = @ + 1],
            "on", event, handler)

\* eventBus.js 18-42
on(w, event, callback, options) ==
  IF ~IsFunction(callback) THEN Throw(w)
  ELSE
    LET w1 == IF ~MapHas(w.events, event)
              THEN [w EXCEPT !.events = MapSet(@, event, <<>>)] ELSE w
        handler == [id |-> w.nextId,
                    callback |-> callback,
                    context |-> OrElse(options.context, Null),
                    priority |-> OrElse(options.priority, Num(0)),
                    once |-> FALSE]
    IN Registered(
         [w1 EXCEPT !.events = MapSet(@, event, Append(MapGet(w1.events, event), handler)),
                    !.nextId = @ + 1],
         "on", event, handler)

\* eventBus.js 50-69
once(w, event, callback, options) ==
  LET w1 == IF ~MapHas(w.onceEvents, event)
            THEN [w EXCEPT !.onceEvents = MapSet(@, event, <<>>)] ELSE w
      handler == [id |-> w.nextId,
                  callback |-> callback,
                  context |-> OrElse(options.context, Null),
                  priority |-> OrElse(options.priority, Num(0)),
                  once |-> TRUE]
  IN Registered(
       [w1 EXCEPT !.onceEvents = MapSet(@, event, Append(MapGet(w1.onceEvents, event), handler)),
                  !.nextId = @ + 1],
       "once", event, handler)

\* Mutant: the bucket is kept when its last handler has been deleted.
RemoveFirst_KeepBucket(m, key, callback) ==
  IF ~MapHas(m, key) THEN m
  ELSE
    LET handlers == MapGet(m, key)
        i == FirstMatch(handlers, callback)
    IN MapSet(m, key, IF i = 0 THEN handlers ELSE RemoveAt(handlers, i))

\* Mutant: every handler with this callback is deleted, not the first only.
RemoveFirst_All(m, key, callback) ==
  IF ~MapHas(m, key) THEN m
  ELSE
    LET rest == SelectSeq(MapGet(m, key), LAMBDA h : h.callback # callback)
    IN IF Len(rest) = 0 THEN MapDelete(m, key) ELSE MapSet(m, key, rest)

\* The body shared by off (76-94), offOnce (101-115) and unsubscribe (562-580):
\* delete the first handler with this callback, then the bucket if it is empty.
RemoveFirst(m, key, callback) ==
  IF ~MapHas(m, key) THEN m
  ELSE
    LET handlers == MapGet(m, key)
        i == FirstMatch(handlers, callback)
        rest == IF i = 0 THEN handlers ELSE RemoveAt(handlers, i)
    IN IF Len(rest) = 0 THEN MapDelete(m, key) ELSE MapSet(m, key, rest)

\* eventBus.js 76-94
off(w, event, callback) ==
  LET after == RemoveFirst(w.events, event, callback)
  IN MarkRemoved([w EXCEPT !.events = after],
                 Ids(w.events, event) \ Ids(after, event))

\* eventBus.js 101-115
offOnce(w, event, callback) ==
  LET after == RemoveFirst(w.onceEvents, event, callback)
  IN MarkRemoved([w EXCEPT !.onceEvents = after],
                 Ids(w.onceEvents, event) \ Ids(after, event))

\* handlers.sort((a, b) => b.priority - a.priority): Array.prototype.sort is
\* stable, so handlers of equal priority keep their insertion order.
RECURSIVE SortByPriority(_)
\* Mutant: the comparator reversed, (a, b) => a.priority - b.priority.
SortByPriority_Ascending(handlers) ==
  IF Len(handlers) = 0 THEN <<>>
  ELSE
    LET front == SortByPriority(SubSeq(handlers, 1, Len(handlers) - 1))
        h == handlers[Len(handlers)]
        k == Cardinality({i \in DOMAIN front : front[i].priority.v <= h.priority.v})
    IN SubSeq(front, 1, k) \o <<h>> \o SubSeq(front, k + 1, Len(front))

SortByPriority(handlers) ==
  IF Len(handlers) = 0 THEN <<>>
  ELSE
    LET front == SortByPriority(SubSeq(handlers, 1, Len(handlers) - 1))
        h == handlers[Len(handlers)]
        k == Cardinality({i \in DOMAIN front : front[i].priority.v >= h.priority.v})
    IN SubSeq(front, 1, k) \o <<h>> \o SubSeq(front, k + 1, Len(front))

\* handlers.forEach(handler => { try { ... } catch (error) { console.error } })
\* eventBus.js 160-170
RECURSIVE DispatchHandlers(_, _, _, _)
\* Mutant: the callback is invoked outside any try/catch.
DispatchHandlers_NoCatch(w, handlers, event, eventData) ==
  IF Len(handlers) = 0 \/ w.thrown THEN w
  ELSE DispatchHandlers(Invoke(w, Head(handlers), <<eventData>>), Tail(handlers),
                        event, eventData)

DispatchHandlers(w, handlers, event, eventData) ==
  IF Len(handlers) = 0 THEN w
  ELSE Then(Invoke(w, Head(handlers), <<eventData>>), LAMBDA w1 :
         DispatchHandlers(IF w1.thrown THEN CatchAndLog(w1, "EventBus", event) ELSE w1,
                          Tail(handlers), event, eventData))

\* eventBus.js 152-171; eventMap is w.events or w.onceEvents
_handleEventEmission(w, event, eventData, eventMap) ==
  IF ~MapHas(eventMap, event) THEN w
  ELSE DispatchHandlers(w, SortByPriority(MapGet(eventMap, event)), event, eventData)

\* Mutant: the envelope is built without looking at options.
emit_SourceIgnored(w, event, data, options) ==
  LET eventData == [type |-> event, data |-> Default(data, Null), source |-> Str("unknown")]
      w1 == _handleEventEmission(w, event, eventData, w.events)
      w2 == _handleEventEmission(w1, event, eventData, w1.onceEvents)
  IN IF MapHas(w2.onceEvents, event)
     THEN [w2 EXCEPT !.onceEvents = MapDelete(@, event)]
     ELSE w2

\* Mutant: the once bucket is not deleted after the emission.
emit_OnceKept(w, event, data, options) ==
  LET eventData == [type |-> event,
                    data |-> Default(data, Null),
                    source |-> OrElse(options.source, Str("unknown"))]
      w1 == _handleEventEmission(w, event, eventData, w.events)
  IN _handleEventEmission(w1, event, eventData, w1.onceEvents)

\* Mutant: the once listeners are served before the persistent ones.
emit_OnceFirst(w, event, data, options) ==
  Then([type |-> event,
        data |-> Default(data, Null),
        source |-> OrElse(options.source, Str("unknown"))], LAMBDA eventData :
    Then(_handleEventEmission(w, event, eventData, w.onceEvents), LAMBDA w1 :
      Then(_handleEventEmission(w1, event, eventData, w1.events), LAMBDA w2 :
        IF MapHas(w2.onceEvents, event)
        THEN [w2 EXCEPT !.onceEvents = MapDelete(@, event)]
        ELSE w2)))

\* eventBus.js 123-146 (the timestamp, Date.now(), is left out of the envelope)
emit(w, event, data, options) ==
  Then([type |-> event,
        data |-> Default(data, Null),
        source |-> OrElse(options.source, Str("unknown"))], LAMBDA eventData :
    Then(_handleEventEmission(w, event, eventData, w.events), LAMBDA w1 :
      Then(_handleEventEmission(w1, event, eventData, w1.onceEvents), LAMBDA w2 :
        IF MapHas(w2.onceEvents, event)
        THEN [w2 EXCEPT !.onceEvents = MapDelete(@, event)]
        ELSE w2)))

\* eventBus.js 177-189; event is Undefined when the argument is omitted
removeAllListeners(w, event) ==
  LET w1 == IF Truthy(event)
            THEN [w EXCEPT !.events = MapDelete(@, event.v),
                           !.onceEvents = MapDelete(@, event.v)]
            ELSE [w EXCEPT !.events = <<>>, !.onceEvents = <<>>]
  IN MarkRemoved(w1, (AllIds(w.events) \cup AllIds(w.onceEvents))
                       \ (AllIds(w1.events) \cup AllIds(w1.onceEvents)))

\* eventBus.js 204-208
getListenerCount(w, event) ==
  (IF MapHas(w.events, event) THEN Len(MapGet(w.events, event)) ELSE 0)
  + (IF MapHas(w.onceEvents, event) THEN Len(MapGet(w.onceEvents, event)) ELSE 0)

\* eventBus.js 195-197: the names of both registries, as a set
getEvents(w) ==
  {w.events[i].k : i \in DOMAIN w.events} \cup {w.onceEvents[i].k : i \in DOMAIN w.onceEvents}

\* -------------------------------------------- StateManager: subscriptions
\* Marks in the log what getState(key) returns at the moment a subscriber of
\* key is about to be invoked, for the observer.
MarkTree(w, key) ==
  [w EXCEPT !.log = Append(@, [type |-> "tree", key |-> key, value |-> getState(w, key),
                                n |-> w.n])]

\* subscriptions.forEach(subscription => { try { ... } catch { console.error } })
\* eventBus.js 592-607
RECURSIVE NotifyEach(_, _, _, _)
\* Mutant: the callback is invoked outside any try/catch.
NotifyEach_NoCatch(w, subscriptions, key, currentValue) ==
  IF Len(subscriptions) = 0 \/ w.thrown THEN w
  ELSE Then(Invoke(w, Head(subscriptions), <<currentValue, Str(key)>>), LAMBDA w1 :
         NotifyEach(
           IF ~w1.thrown /\ Truthy(Head(subscriptions).once) /\ MapHas(w1.subscribers, key)
           THEN [w1 EXCEPT !.subscribers =
                   MapSet(@, key, SetDelete(MapGet(w1.subscribers, key),
                                            Head(subscriptions)))]
           ELSE w1,
           Tail(subscriptions), key, currentValue))

NotifyEach(w, subscriptions, key, currentValue) ==
  IF Len(subscriptions) = 0 THEN w
  ELSE Then(Invoke(MarkTree(w, key), Head(subscriptions), <<currentValue, Str(key)>>), LAMBDA w1 :
         NotifyEach(
           IF w1.thrown THEN CatchAndLog(w1, "StateManager", key)
           ELSE IF Truthy(Head(subscriptions).once)
           THEN IF MapHas(w1.subscribers, key)
                THEN [w1 EXCEPT !.subscribers =
                        MapSet(@, key, SetDelete(MapGet(w1.subscribers, key),
                                                 Head(subscriptions)))]
                ELSE CatchAndLog(w1, "StateManager", key)  \* undefined.delete: TypeError
           ELSE w1,
           Tail(subscriptions), key, currentValue))

\* Mutant: the subscribers of the first segment of the path are notified too.
_notifySubscribers_Ancestors(w, key) ==
  LET top == split(key)[1]
      w0 == IF top # key /\ MapHas(w.subscribers, top)
            THEN NotifyEach(w, MapGet(w.subscribers, top), top, getState(w, top))
            ELSE w
  IN IF ~MapHas(w0.subscribers, key) THEN w0
     ELSE Then(NotifyEach(w0, MapGet(w0.subscribers, key), key, getState(w0, key)), LAMBDA w1 :
            IF ~MapHas(w1.subscribers, key) THEN Throw(w1)
            ELSE IF Len(MapGet(w1.subscribers, key)) = 0
            THEN [w1 EXCEPT !.subscribers = MapDelete(@, key)]
            ELSE w1)

\* eventBus.js 586-613, the method of the class
_notifySubscribers(w, key) ==
  IF ~MapHas(w.subscribers, key) THEN w
  ELSE Then(NotifyEach(w, MapGet(w.subscribers, key), key, getState(w, key)), LAMBDA w1 :
         IF ~MapHas(w1.subscribers, key) THEN Throw(w1)   \* undefined.size: TypeError
         ELSE IF Len(MapGet(w1.subscribers, key)) = 0
         THEN [w1 EXCEPT !.subscribers = MapDelete(@, key)]
         ELSE w1)

\* Mutant: changedKeys is an array, push instead of Set.add.
SetAdd_Push(s, x) == Append(s, x)

\* changedKeys.add(key): the override installed by batch (730-732)
SetAdd(s, x) == IF \E i \in DOMAIN s : s[i] = x THEN s ELSE Append(s, x)

\* this._notifySubscribers(key): the instance property installed by the
\* innermost running batch if there is one, else the method of the class.
CallNotify(w, key) ==
  IF Len(w.notify) = 0 THEN _notifySubscribers(w, key)
  ELSE [w EXCEPT !.notify[Len(w.notify)] = SetAdd(@, key)]

\* keys.forEach(k => this._notifySubscribers(k)); an exception ends the loop
RECURSIVE NotifyKeys(_, _)
NotifyKeys(w, keys) ==
  IF Len(keys) = 0 \/ w.thrown THEN w
  ELSE NotifyKeys(CallNotify(w, Head(keys)), Tail(keys))

\* Object.entries(key).forEach(([k, v]) => this._setNestedValue(k, v))
RECURSIVE SetEntries(_, _)
SetEntries(w, entries) ==
  IF Len(entries) = 0 THEN w
  ELSE SetEntries(_setNestedValue(w, Head(entries).k, Head(entries).v), Tail(entries))

\* A bulk update object { k1: v1, ... }: its entries in property order.
Bulk(entries) == [t |-> "object", entries |-> entries]

\* Mutant of a bulk update: each path is notified as soon as it is written.
RECURSIVE SetAndNotifyEntries(_, _)
SetAndNotifyEntries(w, entries) ==
  IF Len(entries) = 0 \/ w.thrown THEN w
  ELSE SetAndNotifyEntries(
         CallNotify(_setNestedValue(w, Head(entries).k, Head(entries).v), Head(entries).k),
         Tail(entries))

\* Mutant: the subscribers are notified before the value is written.
setState_NotifyBeforeWrite(w, key, value, silent) ==
  LET oldState == w.state
      w0 == IF ~Truthy(Default(silent, Bool(FALSE)))
            THEN IF IsObjectType(key) THEN NotifyKeys(w, MapKeys(key.entries))
                 ELSE CallNotify(w, key.v)
            ELSE w
      w1 == IF IsObjectType(key) THEN SetEntries(w0, key.entries)
            ELSE _setNestedValue(w0, key.v, value)
  IN MarkWrite(_addToHistory(w1, oldState, w1.state), key,
               Truthy(Default(silent, Bool(FALSE))))

\* Mutant: a bulk update writes and notifies path by path.
setState_PathByPath(w, key, value, silent) ==
  LET oldState == w.state
      w1 == IF IsObjectType(key)
            THEN IF ~Truthy(Default(silent, Bool(FALSE)))
                 THEN SetAndNotifyEntries(w, key.entries)
                 ELSE SetEntries(w, key.entries)
            ELSE _setNestedValue(w, key.v, value)
      w2 == MarkWrite(_addToHistory(w1, oldState, w1.state), key,
                      Truthy(Default(silent, Bool(FALSE))))
  IN IF ~Truthy(Default(silent, Bool(FALSE))) /\ ~IsObjectType(key)
     THEN CallNotify(w2, key.v)
     ELSE w2

\* Mutant: the silent argument is ignored, every write notifies.
setState_SilentIgnored(w, key, value, silent) ==
  LET w1 == IF IsObjectType(key) THEN SetEntries(w, key.entries)
            ELSE _setNestedValue(w, key.v, value)
      w2 == MarkWrite(_addToHistory(w1, w.state, w1.state), key, FALSE)
  IN IF IsObjectType(key) THEN NotifyKeys(w2, MapKeys(key.entries))
     ELSE CallNotify(w2, key.v)

\* eventBus.js 463-491; key is Str(path) or Bulk(entries); silent = false
setState(w, key, value, silent) ==
  Then(IF IsObjectType(key) THEN SetEntries(w, key.entries)
       ELSE _setNestedValue(w, key.v, value), LAMBDA w1 :
    Then(MarkWrite(_addToHistory(w1, w.state, w1.state), key,
                   Truthy(Default(silent, Bool(FALSE)))), LAMBDA w2 :
      IF ~Truthy(Default(silent, Bool(FALSE)))
      THEN IF IsObjectType(key) THEN NotifyKeys(w2, MapKeys(key.entries))
           ELSE CallNotify(w2, key.v)
      ELSE w2))

\* Mutant: immediate: options.immediate === true, so that an omitted option
\* means no immediate call.
subscribe_ImmediateOptIn(w, key, callback, options) ==
  IF ~IsFunction(callback) THEN Throw(w)
  ELSE
    LET w1 == IF ~MapHas(w.subscribers, key)
              THEN [w EXCEPT !.subscribers = MapSet(@, key, <<>>)] ELSE w
        subscription == [id |-> w.nextId,
                         callback |-> callback,
                         context |-> OrElse(options.context, Null),
                         immediate |-> options.immediate = Bool(TRUE),
                         once |-> OrElse(options.once, Bool(FALSE))]
        w2 == Registered(
                [w1 EXCEPT !.subscribers =
                              MapSet(@, key, Append(MapGet(w1.subscribers, key), subscription)),
                           !.nextId = @ + 1],
                "subscribe", key, subscription)
    IN IF subscription.immediate
       THEN LET w3 == Invoke(w2, subscription, <<getState(w2, key), Str(key)>>)
            IN IF w3.thrown THEN CatchAndLog(w3, "StateManager", key) ELSE w3
       ELSE w2

\* eventBus.js 517-555
subscribe(w, key, callback, options) ==
  IF ~IsFunction(callback) THEN Throw(w)
  ELSE
    LET w1 == IF ~MapHas(w.subscribers, key)
              THEN [w EXCEPT !.subscribers = MapSet(@, key, <<>>)] ELSE w
        subscription == [id |-> w.nextId,
                         callback |-> callback,
                         context |-> OrElse(options.context, Null),
                         immediate |-> options.immediate # Bool(FALSE),
                         once |-> OrElse(options.once, Bool(FALSE))]
        w2 == Registered(
                [w1 EXCEPT !.subscribers =
                              MapSet(@, key, Append(MapGet(w1.subscribers, key), subscription)),
                           !.nextId = @ + 1],
                "subscribe", key, subscription)
    IN IF subscription.immediate
       THEN Then(Invoke(w2, subscription, <<getState(w2, key), Str(key)>>), LAMBDA w3 :
              IF w3.thrown THEN CatchAndLog(w3, "StateManager", key) ELSE w3)
       ELSE w2

\* eventBus.js 562-580
unsubscribe(w, key, callback) ==
  LET after == RemoveFirst(w.subscribers, key, callback)
  IN MarkRemoved([w EXCEPT !.subscribers = after],
                 Ids(w.subscribers, key) \ Ids(after, key))

\* The statements of an updateFn, run in order until one raises; a statement
\* may itself be a call of batch.
RECURSIVE batch(_, _)
RECURSIVE RunBody(_, _)
RunBody(w, body) ==
  IF Len(body) = 0 \/ w.thrown THEN w
  ELSE
    LET s == Head(body)
        w1 == CASE s.op = "setState" -> setState(w, s.key, s.value, s.silent)
                [] s.op = "batch" -> batch(w, s.body)
                [] s.op = "throw" -> Throw(w)
    IN RunBody(w1, Tail(body))

\* Mutant: no finally; the restore and the notifications are skipped when
\* updateFn raises.
batch_NoFinally(w, body) ==
  LET w1 == [w EXCEPT !.notify = Append(@, <<>>)]
      w2 == MarkFinally(RunBody(w1, body))
      changedKeys == w2.notify[Len(w2.notify)]
      w3 == [w2 EXCEPT !.notify = SubSeq(@, 1, Len(@) - 1)]
  IN IF w2.thrown THEN w2 ELSE NotifyKeys(w3, changedKeys)

\* Mutant: the finally block installs the method of the class instead of the
\* function it saved, so the end of an inner batch notifies the subscribers.
batch_RestoresMethod(w, body) ==
  LET w1 == [w EXCEPT !.notify = Append(@, <<>>)]
      w2 == MarkFinally(RunBody(w1, body))
      raised == w2.thrown
      changedKeys == IF Len(w2.notify) = 0 THEN <<>> ELSE w2.notify[Len(w2.notify)]
      w3 == [w2 EXCEPT !.notify = <<>>, !.thrown = FALSE]
      w4 == NotifyKeys(w3, changedKeys)
  IN IF raised THEN Throw(w4) ELSE w4

\* eventBus.js 725-745
batch(w, body) ==
  LET w1 == [w EXCEPT !.notify = Append(@, <<>>)]
      w2 == MarkFinally(RunBody(w1, body))             \* try { updateFn() }
      raised == w2.thrown
      changedKeys == w2.notify[Len(w2.notify)]
      w3 == [w2 EXCEPT !.notify = SubSeq(@, 1, Len(@) - 1),   \* finally
                       !.thrown = FALSE]
      w4 == NotifyKeys(w3, changedKeys)
  IN IF raised THEN Throw(w4) ELSE w4

\* dependencies.forEach(dep => this.subscribe(dep, updateComputed, { immediate: false }))
RECURSIVE SubscribeEach(_, _, _)
SubscribeEach(w, deps, f) ==
  IF Len(deps) = 0 \/ w.thrown THEN w
  ELSE SubscribeEach(
         subscribe(w, Head(deps), f,
                   [immediate |-> Bool(FALSE), once |-> Undefined, context |-> Undefined]),
         Tail(deps), f)

\* Mutant: without the initial computation of line 718.
computed_NoInitial(w, computeFn, dependencies, targetKey) ==
  SubscribeEach(w, dependencies, UpdateComputed(w.nextId, computeFn, dependencies, targetKey))

\* Mutant: the initial computation writes the target with a notifying setState.
computed_InitialNotifies(w, computeFn, dependencies, targetKey) ==
  LET f == UpdateComputed(w.nextId, computeFn, dependencies, targetKey)
      w1 == SubscribeEach(w, dependencies, f)
      inputs == [i \in DOMAIN dependencies |-> getState(w1, dependencies[i])]
  IN IF w1.thrown THEN w1
     ELSE MarkReturn(setState(w1, Str(targetKey), ApplyFn(w1, computeFn, inputs), Bool(FALSE)),
                     targetKey)

\* eventBus.js 705-719
computed(w, computeFn, dependencies, targetKey) ==
  LET f == UpdateComputed(w.nextId, computeFn, dependencies, targetKey)
      w1 == SubscribeEach(w, dependencies, f)
  IN IF w1.thrown THEN w1 ELSE updateComputed(w1, f)

\* eventBus.js 677-697: a fresh default tree; its root is the last cell of
\* the heap, its six nested objects are the cells before it.
_getInitialState(w) ==
  LET base == Len(w.heap)
  IN [w EXCEPT !.heap = @ \o InitialObjects \o <<Cell("Object", InitialRoot(base))>>]

\* keys.forEach(key => { ...; this.setState(key, initialValue) }) (655-660)
RECURSIVE ResetKeys(_, _, _)
\* Mutant: the value is read in the current tree instead of the default one.
ResetKeys_FromCurrent(w, keys, initialState) ==
  IF Len(keys) = 0 \/ w.thrown THEN w
  ELSE ResetKeys(setState(w, Str(Head(keys)), getState(w, Head(keys)), Undefined),
                 Tail(keys), initialState)

ResetKeys(w, keys, initialState) ==
  IF Len(keys) = 0 \/ w.thrown THEN w
  ELSE
    LET initialValue == ReducePath(w, initialState, split(Head(keys)))
    IN ResetKeys(setState(w, Str(Head(keys)), initialValue, Undefined),
                 Tail(keys), initialState)

\* this.subscribers.forEach((_, key) => this._notifySubscribers(key)) (663-665):
\* Map.prototype.forEach walks the live Map, so when the bucket of the key
\* just visited has been deleted the next entry has taken its position.
RECURSIVE ForEachSubscribed(_, _)
ForEachSubscribed(w, i) ==
  IF i > Len(w.subscribers) \/ w.thrown THEN w
  ELSE
    LET key == w.subscribers[i].k
        w1 == CallNotify(w, key)
    IN ForEachSubscribed(w1, IF MapHas(w1.subscribers, key) THEN i + 1 ELSE i)

\* An array of path strings: the argument keys of resetState.
PathList(items) == [t |-> "object", items |-> items]

\* Mutant: the full reset keeps the tree and only notifies.
resetState_KeepTree(w, keys) ==
  LET w0 == _getInitialState(w)
      initialState == Obj(Len(w0.heap))
  IN IF Truthy(keys)
     THEN ResetKeys(w0, keys.items, initialState)
     ELSE ForEachSubscribed(w0, 1)

\* eventBus.js 651-671; keys is Null (omitted, keys = null) or a PathList
resetState(w, keys) ==
  LET w0 == _getInitialState(w)
      initialState == Obj(Len(w0.heap))
  IN IF Truthy(keys)
     THEN ResetKeys(w0, keys.items, initialState)
     ELSE ForEachSubscribed([w0 EXCEPT !.state = Props(w0, initialState.ref)], 1)

\* eventBus.js 224-231: the methods of the view returned by namespace(namespace)
Prefixed(namespace, event) == namespace \o ":" \o event
nsOn(w, namespace, event, callback, options) ==
  on(w, Prefixed(namespace, event), callback, options)
nsOnce(w, namespace, event, callback, options) ==
  once(w, Prefixed(namespace, event), callback, options)
nsOff(w, namespace, event, callback) ==
  off(w, Prefixed(namespace, event), callback)

\* emit: (event, data, options) => this.emit(..., { ...options, source: namespace })
nsEmit(w, namespace, event, data, options) ==
  emit(w, Prefixed(namespace, event), data, [options EXCEPT !.source = Str(namespace)])

\* Mutant: the thunk of on removes from the once registry and the thunk of
\* once from the persistent one.
thunk_OtherRegistry(w, reg) ==
  CASE reg.kind = "on" -> offOnce(w, reg.key, reg.obj.callback)
    [] reg.kind = "once" -> off(w, reg.key, reg.obj.callback)
    [] OTHER -> unsubscribe(w, reg.key, reg.obj.callback)

\* The thunks returned by on (41), once (68) and subscribe (554), called for
\* the registration reg: each closes over the key and the callback.
thunk(w, reg) ==
  CASE reg.kind = "on" -> off(w, reg.key, reg.obj.callback)
    [] reg.kind = "once" -> offOnce(w, reg.key, reg.obj.callback)
    [] OTHER -> unsubscribe(w, reg.key, reg.obj.callback)

\* The call in the body of a Calls callback; obj is the handler or the
\* subscription being invoked, and a statement that names the callback
\* Self refers to the function itself.  An exception of the call leaves the
\* callback.
Self == [t |-> "self"]
\* Mutant: a re-entrancy guard; while a callback runs, setState writes
\* without notifying and emit delivers nothing.
Reenter_Guarded(w, obj) ==
  LET s == obj.callback.does
      callback == IF s.op \in {"on", "once", "off", "unsubscribe"}
                  THEN IF s.callback = Self THEN obj.callback ELSE s.callback
                  ELSE Undefined
      options == [priority |-> Undefined, context |-> Undefined]
  IN Then(CASE s.op = "emit" -> w
            [] s.op = "on" -> on(w, s.event, callback, options)
            [] s.op = "once" -> once(w, s.event, callback, options)
            [] s.op = "off" -> off(w, s.event, callback)
            [] s.op = "setState" -> setState(w, Str(s.key), s.value, Bool(TRUE))
            [] s.op = "unsubscribe" -> unsubscribe(w, s.key, callback),
          LAMBDA w1 : MarkReturned(w1, obj))

Reenter(w, obj) ==
  LET s == obj.callback.does
      callback == IF s.op \in {"on", "once", "off", "unsubscribe"}
                  THEN IF s.callback = Self THEN obj.callback ELSE s.callback
                  ELSE Undefined
      options == [priority |-> Undefined, context |-> Undefined]
  IN Then(CASE s.op = "emit" -> emit(w, s.event, s.data, [source |-> Undefined])
            [] s.op = "on" -> on(w, s.event, callback, options)
            [] s.op = "once" -> once(w, s.event, callback, options)
            [] s.op = "off" -> off(w, s.event, callback)
            [] s.op = "setState" -> setState(w, Str(s.key), s.value, Undefined)
            [] s.op = "unsubscribe" -> unsubscribe(w, s.key, callback),
          LAMBDA w1 : MarkReturned(w1, obj))

\* ------------------------------------- BaseComponent: listeners and cleanup
\* BaseComponent.js 171-190.  target.addEventListener attaches the new
\* wrappedHandler closure to the target; the map keeps one handler for each
\* target and event type.
addEventListener(w, target, event, handler) ==
  LET wrappedHandler == [id |-> w.comp.wrapped + 1, handler |-> handler]
      events_ == IF MapHas(w.comp.eventListeners, target)
                 THEN MapGet(w.comp.eventListeners, target) ELSE <<>>
  IN [w EXCEPT !.comp.wrapped = @ + 1,
               !.comp.added = w.n,
               !.comp.attached = Append(@, [target |-> target, event |-> event,
                                            id |-> wrappedHandler.id, n |-> w.n]),
               !.comp.eventListeners = MapSet(@, target, MapSet(events_, event, wrappedHandler))]

\* target.removeEventListener(event, handler)
Detach(attached, target, event, id) ==
  SelectSeq(attached, LAMBDA a : ~(a.target = target /\ a.event = event /\ a.id = id))

\* BaseComponent.js 197-211
removeEventListener(w, target, event) ==
  IF ~MapHas(w.comp.eventListeners, target) THEN w
  ELSE
    LET targetListeners == MapGet(w.comp.eventListeners, target)
    IN IF ~MapHas(targetListeners, event) THEN w
       ELSE
         LET rest == MapDelete(targetListeners, event)
         IN [w EXCEPT !.comp.attached = Detach(@, target, event, MapGet(targetListeners, event).id),
                      !.comp.eventListeners =
                         IF Len(rest) = 0 THEN MapDelete(@, target) ELSE MapSet(@, target, rest)]

\* BaseComponent.js 216-223: every handler kept in the map is detached from
\* its target, then the map is cleared.
removeAllEventListeners(w) ==
  LET stored == UNION {{[target |-> w.comp.eventListeners[i].k,
                         event |-> w.comp.eventListeners[i].v[j].k,
                         id |-> w.comp.eventListeners[i].v[j].v.id] :
                          j \in DOMAIN w.comp.eventListeners[i].v} :
                       i \in DOMAIN w.comp.eventListeners}
  IN [w EXCEPT !.comp.attached =
                  SelectSeq(@, LAMBDA a :
                    [target |-> a.target, event |-> a.event, id |-> a.id] \notin stored),
               !.comp.eventListeners = <<>>]

\* BaseComponent.js 231-239; the thunk returned by subscribe is kept, it is
\* identified by the subscription it was returned for.
subscribeToState(w, key, callback, options) ==
  Then(subscribe(w, key, callback, [options EXCEPT !.context = Obj(-1)]), LAMBDA w1 :
    IF w1.thrown THEN w1
    ELSE [w1 EXCEPT !.comp.stateSubscriptions = Append(@, w.nextId),
                    !.comp.added = w.n])

\* this.stateSubscriptions.forEach(unsubscribe => unsubscribe())
RECURSIVE CallThunks(_, _)
CallThunks(w, ids) ==
  IF Len(ids) = 0 \/ w.thrown THEN w
  ELSE CallThunks(thunk(w, w.regs[Head(ids)]), Tail(ids))

\* BaseComponent.js 244-247
unsubscribeFromAllState(w) ==
  Then(CallThunks(w, w.comp.stateSubscriptions), LAMBDA w1 :
    IF w1.thrown THEN w1 ELSE [w1 EXCEPT !.comp.stateSubscriptions = <<>>])

\* ------------------------------------------------ HeroComponent: the hooks
\* Blog.js 93-108: setup finds the elements of the page, which has them, and
\* starts the typing animation.
heroSetup(w) ==
  initializeTypingAnimation([w EXCEPT !.comp.hero.typingText = TRUE])

\* Blog.js 110-126
heroBindEvents(w) ==
  Then(addEventListener(
         addEventListener(
           addEventListener(
             addEventListener(w, "window", "scroll", "handleScroll"),
             "window", "resize", "handleResize"),
           "backgroundImage", "load", "handleImageLoad"),
         "backgroundImage", "error", "handleImageError"), LAMBDA w1 :
    Then(subscribeToState(w1, "currentSection", HeroHandler("handleSectionChange"),
                          [immediate |-> Undefined, once |-> Undefined, context |-> Undefined]),
         LAMBDA w2 :
      IF w2.thrown THEN w2
      ELSE subscribeToState(w2, "preferences.reducedMotion", HeroHandler("handleReducedMotion"),
                            [immediate |-> Undefined, once |-> Undefined, context |-> Undefined])))

\* Blog.js 436-456: beforeDestroy clears the timer it kept.
heroBeforeDestroy(w) == clearTypingTimeout(w)

\* The hooks a HeroComponent overrides.
heroHook(w, name) ==
  CASE name = "setup" -> heroSetup(w)
    [] name = "bindEvents" -> heroBindEvents(w)
    [] name = "beforeDestroy" -> heroBeforeDestroy(w)
    [] OTHER -> w

\* ------------------------------------------------ BaseComponent: lifecycle
\* The hooks awaited by init, in order (BaseComponent.js 34-38).
InitSteps == <<"beforeInit", "setup", "render", "bindEvents", "afterInit">>

\* A lifecycle hook is called: the observer records it; the hook the subclass
\* makes raise raises (an async function: its promise is rejected).
hook(w, name) ==
  Then([w EXCEPT !.log = Append(@, [type |-> "step", name |-> name, n |-> w.n])], LAMBDA w1 :
    IF w1.comp.raises = name THEN Throw(w1)
    ELSE IF w1.comp.kind = "hero" THEN heroHook(w1, name)
    ELSE w1)

\* BaseComponent.js 254-257: emit(event, data); the observer records the call
\* of eventBus.emit.  The data object is opaque.
componentEmit(w, event) ==
  emit([w EXCEPT !.log = Append(@, [type |-> "emitted", event |-> event, n |-> w.n])],
       "component:basecomponent:" \o event, Obj(-1), [source |-> Undefined])

\* BaseComponent.js 264-267
componentOn(w, event, callback) ==
  on(w, "component:basecomponent:" \o event, callback,
     [priority |-> Undefined, context |-> Undefined])

\* `await hook()`: the call is suspended with the promise of the hook, which is
\* rejected when the hook raised; pc is the position to resume at.
Suspend(w, i, pc) ==
  [w EXCEPT !.comp.calls[i].pc = pc,
            !.comp.calls[i].rejected = w.thrown,
            !.thrown = FALSE]

\* The async function returns or raises: its promise is settled.
Settle(w, i) ==
  [w EXCEPT !.comp.calls[i].pc = 0,
            !.comp.calls[i].outcome = IF w.thrown THEN "rejected" ELSE "resolved",
            !.thrown = FALSE]

\* A new call of an async method of the component, made in top-level call n.
NewCall(w, fn) ==
  [w EXCEPT !.comp.calls = Append(@, [fn |-> fn, pc |-> 0, rejected |-> FALSE,
                                       outcome |-> "pending", ran |-> FALSE, at |-> w.n])]

\* Mutant: init without try/catch; a hook that raises rejects init().
initCatch_Rethrow(w, i) ==
  Settle(Throw(w), i)

\* BaseComponent.js 46-49: the catch block of init
initCatch(w, i) ==
  Settle(componentEmit(CatchAndLog(w, "BaseComponent", "init"), "error"), i)

\* BaseComponent.js 30-34: init() up to its first await
init(w) ==
  Then(NewCall(w, "init"), LAMBDA w1 :
    IF w1.comp.isInitialized \/ w1.comp.isDestroyed THEN Settle(w1, Len(w1.comp.calls))
    ELSE Suspend(hook([w1 EXCEPT !.comp.calls[Len(w1.comp.calls)].ran = TRUE], "beforeInit"),
                 Len(w1.comp.calls), 2))

\* BaseComponent.js 34-49: init() call i resumes after an await.  pc 2..5 is
\* the hook to call next, pc 6 the statements after the last await.
initContinue(w, i) ==
  IF w.comp.calls[i].rejected THEN initCatch(w, i)
  ELSE IF w.comp.calls[i].pc <= Len(InitSteps)
  THEN Suspend(hook(w, InitSteps[w.comp.calls[i].pc]), i, w.comp.calls[i].pc + 1)
  ELSE Then(componentEmit([w EXCEPT !.comp.isInitialized = TRUE], "init"), LAMBDA w1 :
         IF w1.thrown THEN initCatch(w1, i) ELSE Settle(w1, i))

\* BaseComponent.js 113-115: the catch block of destroy
destroyCatch(w, i) == Settle(CatchAndLog(w, "BaseComponent", "destroy"), i)

\* BaseComponent.js 90-94: destroy() up to its first await
destroy(w) ==
  Then(NewCall(w, "destroy"), LAMBDA w1 :
    IF w1.comp.isDestroyed THEN Settle(w1, Len(w1.comp.calls))
    ELSE Suspend(hook([w1 EXCEPT !.comp.calls[Len(w1.comp.calls)].ran = TRUE], "beforeDestroy"),
                 Len(w1.comp.calls), 1))

\* BaseComponent.js 94-115: destroy() call i resumes after an await.  pc 1 is
\* the cleanup up to `await this.afterDestroy()`, pc 2 what follows it.  The
\* attribute of the element (103) is left out.
destroyContinue(w, i) ==
  IF w.comp.calls[i].rejected THEN destroyCatch(w, i)
  ELSE IF w.comp.calls[i].pc = 1
  THEN Then(unsubscribeFromAllState(removeAllEventListeners(w)), LAMBDA w1 :
         IF w1.thrown THEN destroyCatch(w1, i)
         ELSE Suspend(hook(w1, "afterDestroy"), i, 2))
  ELSE Then(componentEmit([w EXCEPT !.comp.isDestroyed = TRUE], "destroy"), LAMBDA w1 :
         IF w1.thrown THEN destroyCatch(w1, i) ELSE Settle(w1, i))

\* ------------------------------------------------------------------ inputs
\* The arguments the callers pass.  cbA returns normally, cbThrow raises.
NotAFunction == Str("not a function")
HostObject == Obj(-1)
NoOptions == [priority |-> Undefined, context |-> Undefined]
ListenerArgs ==
  { [event |-> "e1", callback |-> Fn("cbA"), options |-> NoOptions],
    [event |-> "e1", callback |-> Fn("cbA"),
     options |-> [priority |-> Num(1), context |-> Undefined]],
    [event |-> "e1", callback |-> Fn("cbThrow"), options |-> NoOptions],
    [event |-> "e1", callback |-> Fn("cbThrow"),
     options |-> [priority |-> Num(2), context |-> HostObject]],
    [event |-> "e2", callback |-> Fn("cbA"), options |-> NoOptions] }
RemovalArgs ==
  { [key |-> "e1", callback |-> Fn("cbA")],
    [key |-> "e1", callback |-> Fn("cbThrow")],
    [key |-> "e2", callback |-> Fn("cbA")] }
EmitArgs ==
  { [event |-> "e1", data |-> Undefined, options |-> [source |-> Undefined]],
    [event |-> "e1", data |-> Str("d1"), options |-> [source |-> Undefined]],
    [event |-> "e1", data |-> Str("d2"), options |-> [source |-> Str("nav")]],
    [event |-> "e2", data |-> Str("d1"), options |-> [source |-> Undefined]] }
RemoveAllArgs == {Undefined, Str("e1"), Str("e2")}

SetStateArgs ==
  { [key |-> Str("currentSection"), value |-> Str("about"), silent |-> Undefined],
    [key |-> Str("currentSection"), value |-> Num(1), silent |-> Bool(FALSE)],
    [key |-> Str("currentSection"), value |-> Str("about"), silent |-> Bool(TRUE)],
    [key |-> Str("preferences.reducedMotion"), value |-> Bool(TRUE), silent |-> Undefined],
    [key |-> Str("a.b"), value |-> Num(1), silent |-> Undefined],
    [key |-> Str("a.b.c"), value |-> Num(1), silent |-> Undefined],
    [key |-> Str("theme.mode"), value |-> Str("about"), silent |-> Undefined],
    [key |-> Bulk(<< [k |-> "currentSection", v |-> Str("about")],
                     [k |-> "a.b", v |-> Num(1)] >>),
     value |-> Undefined, silent |-> Undefined] }
SubscribeArgs ==
  { [key |-> "currentSection", callback |-> Fn("cbA"),
     options |-> [immediate |-> Undefined, once |-> Undefined, context |-> Undefined]],
    [key |-> "currentSection", callback |-> Fn("cbA"),
     options |-> [immediate |-> Bool(TRUE), once |-> Undefined, context |-> HostObject]],
    [key |-> "currentSection", callback |-> Fn("cbA"),
     options |-> [immediate |-> Bool(FALSE), once |-> Undefined, context |-> Undefined]],
    [key |-> "currentSection", callback |-> Fn("cbA"),
     options |-> [immediate |-> Bool(FALSE), once |-> Bool(TRUE), context |-> Undefined]],
    [key |-> "currentSection", callback |-> Fn("cbThrow"),
     options |-> [immediate |-> Undefined, once |-> Undefined, context |-> Undefined]],
    [key |-> "currentSection", callback |-> Fn("cbThrow"),
     options |-> [immediate |-> Bool(FALSE), once |-> Bool(TRUE), context |-> Undefined]],
    [key |-> "a.b", callback |-> Fn("cbA"),
     options |-> [immediate |-> Undefined, once |-> Undefined, context |-> Undefined]],
    [key |-> "a.b", callback |-> Fn("cbA"),
     options |-> [immediate |-> Bool(FALSE), once |-> Undefined, context |-> Undefined]],
    [key |-> "a.b", callback |-> NotAFunction,
     options |-> [immediate |-> Undefined, once |-> Undefined, context |-> Undefined]] }
UnsubscribeArgs ==
  { [key |-> "currentSection", callback |-> Fn("cbA")],
    [key |-> "currentSection", callback |-> Fn("cbThrow")],
    [key |-> "a.b", callback |-> Fn("cbA")] }

\* The bodies of the functions handed to batch.
Set(key, value) == [op |-> "setState", key |-> Str(key), value |-> value, silent |-> Undefined]
SetSilently(key, value) == [op |-> "setState", key |-> Str(key), value |-> value, silent |-> Bool(TRUE)]
Raise == [op |-> "throw"]
UpdateFns ==
  { <<>>,
    << Set("currentSection", Num(1)), Set("currentSection", Num(2)) >>,
    << Set("a.b", Bool(TRUE)), Set("currentSection", Str("about")), Set("a.b", Bool(FALSE)) >>,
    << SetSilently("currentSection", Num(1)), Set("a.b", Num(1)) >>,
    << Raise >>,
    << Set("currentSection", Num(1)), Set("a.b", Num(2)), Set("currentSection", Num(3)), Raise >>,
    << Set("a.b", Num(1)), Raise, Set("currentSection", Num(2)) >> }

\* ------------------------------------------------------------ initial state
Init ==
  /\ events = <<>>
  /\ onceEvents = <<>>
  /\ state = InitialRoot(0)
  /\ heap = InitialObjects
  /\ subscribers = <<>>
  /\ history = <<>>
  /\ notify = <<>>
  /\ nextId = 1
  /\ log = <<>>
  /\ regs = <<>>
  /\ lastOp = [op |-> "new"]
  /\ n = 0
  /\ comp = NoComponent

\* The same state as a world, for the runs that start after earlier calls.
FreshStore ==
  [events |-> <<>>, onceEvents |-> <<>>, state |-> InitialRoot(0), heap |-> InitialObjects,
   subscribers |-> <<>>, history |-> <<>>, notify |-> <<>>, nextId |-> 1, log |-> <<>>,
   regs |-> <<>>, n |-> 0, comp |-> NoComponent, thrown |-> FALSE]

\* ------------------------------------------------------------------ actions
\* The world a top-level call starts in, and the state it leaves.
Begin == [World EXCEPT !.n = n + 1]
Commit(result, op) == \E w \in {result} :
  /\ events' = w.events
  /\ onceEvents' = w.onceEvents
  /\ state' = w.state
  /\ heap' = w.heap
  /\ subscribers' = w.subscribers
  /\ history' = w.history
  /\ notify' = w.notify
  /\ nextId' = w.nextId
  /\ log' = w.log
  /\ regs' = w.regs
  /\ lastOp' = [op EXCEPT !.threw = w.thrown]
  /\ n' = w.n
  /\ comp' = w.comp

On(event, callback, options) ==
  /\ n < MaxOps
  /\ Commit(on(Begin, event, callback, options),
            [op |-> "on", key |-> event, callback |-> callback, options |-> options,
             threw |-> FALSE])

Once(event, callback, options) ==
  /\ n < MaxOps
  /\ Commit(once(Begin, event, callback, options),
            [op |-> "once", key |-> event, callback |-> callback, options |-> options,
             threw |-> FALSE])

Off(event, callback) ==
  /\ n < MaxOps
  /\ Commit(off(Begin, event, callback),
            [op |-> "off", key |-> event, callback |-> callback, threw |-> FALSE])

OffOnce(event, callback) ==
  /\ n < MaxOps
  /\ Commit(offOnce(Begin, event, callback),
            [op |-> "offOnce", key |-> event, callback |-> callback, threw |-> FALSE])

Emit(event, args) ==
  /\ n < MaxOps
  /\ Commit(emit(Begin, event, args.data, args.options),
            [op |-> "emit", key |-> event, data |-> args.data, options |-> args.options,
             threw |-> FALSE])

RemoveAllListeners(event) ==
  /\ n < MaxOps
  /\ Commit(removeAllListeners(Begin, event),
            [op |-> "removeAllListeners", event |-> event, threw |-> FALSE])

SetState(key, value, silent) ==
  /\ n < MaxOps
  /\ Commit(setState(Begin, key, value, silent),
            [op |-> "setState", key |-> key, value |-> value, silent |-> silent,
             threw |-> FALSE])

Subscribe(key, callback, options) ==
  /\ n < MaxOps
  /\ Commit(subscribe(Begin, key, callback, options),
            [op |-> "subscribe", key |-> key, callback |-> callback, options |-> options,
             threw |-> FALSE])

Unsubscribe(key, callback) ==
  /\ n < MaxOps
  /\ Commit(unsubscribe(Begin, key, callback),
            [op |-> "unsubscribe", key |-> key, callback |-> callback, threw |-> FALSE])

Batch(body) ==
  /\ n < MaxOps
  /\ Commit(batch(Begin, body), [op |-> "batch", body |-> body, threw |-> FALSE])

NextBus ==
  \/ \E a \in ListenerArgs : On(a.event, a.callback, a.options)
  \/ On("e1", NotAFunction, NoOptions)
  \/ \E a \in ListenerArgs : Once(a.event, a.callback, a.options)
  \/ \E a \in RemovalArgs : Off(a.key, a.callback)
  \/ \E a \in RemovalArgs : OffOnce(a.key, a.callback)
  \/ \E a \in EmitArgs : Emit(a.event, a)
  \/ \E e \in RemoveAllArgs : RemoveAllListeners(e)

NextStore ==
  \/ \E a \in SetStateArgs : SetState(a.key, a.value, a.silent)
  \/ \E a \in SubscribeArgs : Subscribe(a.key, a.callback, a.options)
  \/ \E a \in UnsubscribeArgs : Unsubscribe(a.key, a.callback)
  \/ \E f \in UpdateFns : Batch(f)

SpecBus == Init /\ [][NextBus]_vars
SpecStore == Init /\ [][NextStore]_vars

\* ------------------------------------------------------------ nested batch
\* An updateFn that calls batch itself.
Nested(body) == [op |-> "batch", body |-> body]
NestedUpdateFns ==
  { << Nested(<< Set("currentSection", Num(1)) >>) >>,
    << Set("currentSection", Num(1)),
       Nested(<< Set("a.b", Num(1)), Set("currentSection", Num(2)) >>),
       Set("a.b", Num(2)) >>,
    << Nested(<< Set("a.b", Num(1)), Nested(<< Set("currentSection", Num(3)) >>) >>),
       SetSilently("a.b", Num(4)) >>,
    << Nested(<< Set("currentSection", Num(1)), Raise >>), Set("a.b", Num(1)) >>,
    << Set("a.b", Num(1)), Nested(<< >>) >> }
NestedSubscribeArgs ==
  { a \in SubscribeArgs : a.callback # NotAFunction /\ a.options.immediate = Bool(FALSE) }

NextNested ==
  \/ \E f \in NestedUpdateFns : Batch(f)
  \/ \E a \in NestedSubscribeArgs : Subscribe(a.key, a.callback, a.options)
  \/ \E v \in {Str("about"), Num(1)} : SetState(Str("currentSection"), v, Undefined)
  \/ Unsubscribe("currentSection", Fn("cbA"))

SpecNested == Init /\ [][NextNested]_vars

\* The bus and the store used side by side.
NextBuckets == NextBus \/ NextStore
SpecBuckets == Init /\ [][NextBuckets]_vars

\* ------------------------------------------- computed values and resetState
\* The calls of a component that uses derived values and resets: the paths
\* are those of the default tree and of the fullName example of
\* stateManager.test.js.
ImmediateOff == [immediate |-> Bool(FALSE), once |-> Undefined, context |-> Undefined]
TreeSubscribeArgs ==
  { [key |-> "preferences", callback |-> Fn("cbA"), options |-> ImmediateOff],
    [key |-> "preferences.reducedMotion", callback |-> Fn("cbA"), options |-> ImmediateOff],
    [key |-> "currentSection", callback |-> Fn("cbThrow"), options |-> ImmediateOff],
    [key |-> "currentSection", callback |-> Fn("cbA"),
     options |-> [immediate |-> Bool(FALSE), once |-> Bool(TRUE), context |-> Undefined]],
    [key |-> "fullName", callback |-> Fn("cbA"), options |-> ImmediateOff] }
TreeSetStateArgs ==
  { [key |-> Str("preferences.reducedMotion"), value |-> Bool(TRUE), silent |-> Undefined],
    [key |-> Str("preferences"), value |-> Str("none"), silent |-> Undefined],
    [key |-> Str("currentSection"), value |-> Str("about"), silent |-> Undefined],
    [key |-> Str("currentSection"), value |-> Str("blog"), silent |-> Bool(TRUE)],
    [key |-> Str("firstName"), value |-> Str("Jane"), silent |-> Undefined],
    [key |-> Bulk(<< [k |-> "firstName", v |-> Str("John")],
                     [k |-> "currentSection", v |-> Str("Doe")] >>),
     value |-> Undefined, silent |-> Undefined] }
TreeResetArgs ==
  { Null,
    PathList(<<"currentSection">>),
    PathList(<<"preferences">>),
    PathList(<<"theme.mode">>),
    PathList(<<"preferences.reducedMotion", "firstName">>) }
ComputedArgs ==
  { [computeFn |-> "template", dependencies |-> <<"firstName", "currentSection">>,
     targetKey |-> "fullName"],
    [computeFn |-> "first", dependencies |-> <<"fullName">>, targetKey |-> "a.b"] }

ResetState(keys) ==
  /\ n < MaxOps
  /\ Commit(resetState(Begin, keys), [op |-> "resetState", keys |-> keys, threw |-> FALSE])

Computed(computeFn, dependencies, targetKey) ==
  /\ n < MaxOps
  /\ Commit(computed(Begin, computeFn, dependencies, targetKey),
            [op |-> "computed", computeFn |-> computeFn, dependencies |-> dependencies,
             targetKey |-> targetKey, threw |-> FALSE])

NextTree ==
  \/ \E a \in TreeSetStateArgs : SetState(a.key, a.value, a.silent)
  \/ \E a \in TreeSubscribeArgs : Subscribe(a.key, a.callback, a.options)
  \/ \E k \in TreeResetArgs : ResetState(k)
  \/ \E a \in ComputedArgs : Computed(a.computeFn, a.dependencies, a.targetKey)

SpecTree == Init /\ [][NextTree]_vars

\* ------------------------------------------------- a component's lifetime
\* The calls made on one component by its owner and by the event loop.
MaxComponentOps == 5

\* The component after `new TestComponent(element, { autoInit })`, where the
\* subclass makes the hook `raises` raise: with autoInit the constructor has
\* called init() (BaseComponent.js 22-24).
Constructed(autoInit, raises) ==
  Then([FreshStore EXCEPT !.comp.raises = raises], LAMBDA w :
    IF autoInit THEN init(w) ELSE w)

InitComponent ==
  \E autoInit \in BOOLEAN, raises \in {"none"} \cup {InitSteps[i] : i \in DOMAIN InitSteps} :
    \E w \in {Constructed(autoInit, raises)} :
      /\ events = w.events
      /\ onceEvents = w.onceEvents
      /\ state = w.state
      /\ heap = w.heap
      /\ subscribers = w.subscribers
      /\ history = w.history
      /\ notify = w.notify
      /\ nextId = w.nextId
      /\ log = w.log
      /\ regs = w.regs
      /\ lastOp = [op |-> "new", autoInit |-> autoInit]
      /\ n = 0
      /\ comp = w.comp

ComponentInit ==
  /\ n < MaxComponentOps
  /\ Commit(init(Begin), [op |-> "init", threw |-> FALSE])

ComponentDestroy ==
  /\ n < MaxComponentOps
  /\ Commit(destroy(Begin), [op |-> "destroy", threw |-> FALSE])

\* The event loop resumes the suspended call i.
Resume(i) ==
  /\ n < MaxComponentOps
  /\ comp.calls[i].outcome = "pending"
  /\ Commit(IF comp.calls[i].fn = "init" THEN initContinue(Begin, i)
            ELSE destroyContinue(Begin, i),
            [op |-> "resume", call |-> i, fn |-> comp.calls[i].fn, threw |-> FALSE])

AddEventListener(target, event, handler) ==
  /\ n < MaxComponentOps
  /\ Commit(addEventListener(Begin, target, event, handler),
            [op |-> "addEventListener", target |-> target, event |-> event,
             handler |-> handler, threw |-> FALSE])

RemoveEventListener(target, event) ==
  /\ n < MaxComponentOps
  /\ Commit(removeEventListener(Begin, target, event),
            [op |-> "removeEventListener", target |-> target, event |-> event,
             threw |-> FALSE])

SubscribeToState(key, callback, options) ==
  /\ n < MaxComponentOps
  /\ Commit(subscribeToState(Begin, key, callback, options),
            [op |-> "subscribeToState", key |-> key, callback |-> callback,
             options |-> options, threw |-> FALSE])

ComponentOn(event, callback) ==
  /\ n < MaxComponentOps
  /\ Commit(componentOn(Begin, event, callback),
            [op |-> "componentOn", key |-> event, callback |-> callback, threw |-> FALSE])

ListenerTargets ==
  { [target |-> "button", event |-> "click", handler |-> Fn("handler1")],
    [target |-> "button", event |-> "click", handler |-> Fn("handler2")],
    [target |-> "input", event |-> "change", handler |-> Fn("handler2")] }

NextComponent ==
  \/ ComponentInit
  \/ ComponentDestroy
  \/ \E i \in DOMAIN comp.calls : Resume(i)
  \/ \E a \in ListenerTargets : AddEventListener(a.target, a.event, a.handler)
  \/ RemoveEventListener("button", "click")
  \/ SubscribeToState("currentSection", Fn("cbA"), ImmediateOff)
  \/ ComponentOn("error", Fn("cbThrow"))

SpecComponent == InitComponent /\ [][NextComponent]_vars

\* ------------------------------------------------------ the hero component
\* The page constructs the HeroComponent with or without autoInit
\* (main.js 211-214 then calls init); afterwards the application writes the
\* two paths the component subscribes to, pauses and resumes the typing,
\* destroys the component, and the timers it has set fire.
InitHero ==
  \E autoInit \in BOOLEAN :
    \E w \in {Then([FreshStore EXCEPT !.comp.kind = "hero"], LAMBDA w0 :
                 IF autoInit THEN init(w0) ELSE w0)} :
      /\ events = w.events
      /\ onceEvents = w.onceEvents
      /\ state = w.state
      /\ heap = w.heap
      /\ subscribers = w.subscribers
      /\ history = w.history
      /\ notify = w.notify
      /\ nextId = w.nextId
      /\ log = w.log
      /\ regs = w.regs
      /\ lastOp = [op |-> "new", autoInit |-> autoInit]
      /\ n = 0
      /\ comp = w.comp

PauseTyping ==
  /\ n < MaxComponentOps
  /\ Commit(pauseTyping(Begin), [op |-> "pauseTyping", threw |-> FALSE])

ResumeTyping ==
  /\ n < MaxComponentOps
  /\ Commit(resumeTyping(Begin), [op |-> "resumeTyping", threw |-> FALSE])

TimerFires(t) ==
  /\ n < MaxComponentOps
  /\ Commit(timerFires(Begin, t), [op |-> "timer", timer |-> t, threw |-> FALSE])

\* The application writes a path the component subscribes to.
HeroSetState(key, value) ==
  /\ n < MaxComponentOps
  /\ Commit(setState(Begin, key, value, Undefined),
            [op |-> "setState", key |-> key, value |-> value, silent |-> Undefined,
             threw |-> FALSE])

HeroSetStateArgs ==
  { [key |-> Str("currentSection"), value |-> Str("about")],
    [key |-> Str("currentSection"), value |-> Str("hero")],
    [key |-> Str("preferences.reducedMotion"), value |-> Bool(TRUE)],
    [key |-> Str("preferences.reducedMotion"), value |-> Bool(FALSE)] }

NextHero ==
  \/ ComponentInit
  \/ ComponentDestroy
  \/ \E i \in DOMAIN comp.calls : Resume(i)
  \/ \E a \in HeroSetStateArgs : HeroSetState(a.key, a.value)
  \/ PauseTyping
  \/ ResumeTyping
  \/ \E t \in comp.hero.timers : TimerFires(t)

SpecHero == InitHero /\ [][NextHero]_vars

\* ---------------------------------------------------- re-entrant callbacks
\* Listeners and subscribers that call the bus or the store from their body.
P == "currentSection"
Q == "theme"
Body ==
  [ReEmit |-> Calls("firstCall", [op |-> "emit", event |-> "e1", data |-> Str("again")]),
   EmitE2 |-> Calls("always", [op |-> "emit", event |-> "e2", data |-> Str("inner")]),
   RegisterOn |-> Calls("always", [op |-> "on", event |-> "e1", callback |-> Fn("cbA")]),
   RegisterOnce |-> Calls("always", [op |-> "once", event |-> "e1", callback |-> Fn("cbA")]),
   RemoveA |-> Calls("always", [op |-> "off", event |-> "e1", callback |-> Fn("cbA")]),
   UnsubscribeSelf |-> Calls("always", [op |-> "unsubscribe", key |-> P, callback |-> Self]),
   UnsubscribeA |-> Calls("always", [op |-> "unsubscribe", key |-> P, callback |-> Fn("cbA")]),
   Rewrite |-> Calls("firstCall", [op |-> "setState", key |-> P, value |-> Str("rewritten")]),
   SetQ |-> Calls("always", [op |-> "setState", key |-> Q, value |-> Str("light")])]

OnceOn == [immediate |-> Bool(FALSE), once |-> Bool(TRUE), context |-> Undefined]

ReentrantOnArgs == {Fn("cbA"), Body.ReEmit, Body.RegisterOn, Body.RegisterOnce, Body.RemoveA}
ReentrantOnceArgs == {Fn("cbA"), Body.ReEmit, Body.RegisterOn, Body.RegisterOnce}
ReentrantSubscribeArgs ==
  { [key |-> P, callback |-> Fn("cbA"), options |-> ImmediateOff],
    [key |-> P, callback |-> Fn("cbA"), options |-> OnceOn],
    [key |-> P, callback |-> Fn("cbThrow"), options |-> OnceOn],
    [key |-> P, callback |-> Body.UnsubscribeSelf, options |-> ImmediateOff],
    [key |-> P, callback |-> Body.UnsubscribeA, options |-> ImmediateOff],
    [key |-> P, callback |-> Body.Rewrite, options |-> ImmediateOff],
    [key |-> P, callback |-> Body.Rewrite, options |-> OnceOn],
    [key |-> Q, callback |-> Fn("cbA"), options |-> ImmediateOff] }
ReentrantSetStateArgs ==
  { [key |-> Str(P), value |-> Str("about")],
    [key |-> Bulk(<< [k |-> P, v |-> Str("about")], [k |-> Q, v |-> Str("light")] >>),
     value |-> Undefined] }

\* What the application has registered when the run starts: nothing; a
\* subscriber of P that writes Q, a subscriber of Q and a second subscriber
\* of P; a listener of e1 that emits e2, a listener of e2 and a second
\* listener of e1.
Registrations ==
  { <<>>,
    << [op |-> "subscribe", key |-> P, callback |-> Body.SetQ],
       [op |-> "subscribe", key |-> Q, callback |-> Fn("cbA")],
       [op |-> "subscribe", key |-> P, callback |-> Fn("cbB")] >>,
    << [op |-> "on", key |-> "e1", callback |-> Body.EmitE2],
       [op |-> "on", key |-> "e2", callback |-> Fn("cbA")],
       [op |-> "on", key |-> "e1", callback |-> Fn("cbB")] >> }

RECURSIVE AfterRegistrations(_, _)
AfterRegistrations(w, calls) ==
  IF Len(calls) = 0 THEN w
  ELSE AfterRegistrations(
         IF Head(calls).op = "on"
         THEN on(w, Head(calls).key, Head(calls).callback, NoOptions)
         ELSE IF Head(calls).op = "once"
         THEN once(w, Head(calls).key, Head(calls).callback, NoOptions)
         ELSE subscribe(w, Head(calls).key, Head(calls).callback, ImmediateOff),
         Tail(calls))

InitReentrant ==
  \E calls \in Registrations : \E w \in {AfterRegistrations(FreshStore, calls)} :
    /\ events = w.events
    /\ onceEvents = w.onceEvents
    /\ state = w.state
    /\ heap = w.heap
    /\ subscribers = w.subscribers
    /\ history = w.history
    /\ notify = w.notify
    /\ nextId = w.nextId
    /\ log = w.log
    /\ regs = w.regs
    /\ lastOp = [op |-> "new"]
    /\ n = 0
    /\ comp = w.comp

NextReentrant ==
  \/ \E cb \in ReentrantOnArgs : On("e1", cb, NoOptions)
  \/ \E cb \in ReentrantOnceArgs : Once("e1", cb, NoOptions)
  \/ Emit("e1", [data |-> Str("d1"), options |-> [source |-> Undefined]])
  \/ \E a \in ReentrantSubscribeArgs : Subscribe(a.key, a.callback, a.options)
  \/ \E a \in ReentrantSetStateArgs : SetState(a.key, a.value, Undefined)

SpecReentrant == InitReentrant /\ [][NextReentrant]_vars

\* ------------------------------------------- registration and its thunks
\* A component that registers listeners and subscribers, keeps the thunks it
\* is given and calls them; some of its callbacks are not functions.
RegistrationOnArgs ==
  { [event |-> "e1", callback |-> Fn("cbA")],
    [event |-> "e1", callback |-> Fn("cbThrow")],
    [event |-> "e1", callback |-> NotAFunction],
    [event |-> "e2", callback |-> Undefined] }
RegistrationSubscribeArgs ==
  { [key |-> "currentSection", callback |-> Fn("cbA"), options |-> ImmediateOff],
    [key |-> "currentSection", callback |-> Fn("cbThrow"), options |-> ImmediateOff],
    [key |-> "currentSection", callback |-> NotAFunction, options |-> ImmediateOff],
    [key |-> "a.b", callback |-> Null,
     options |-> [immediate |-> Undefined, once |-> Undefined, context |-> Undefined]] }

\* The thunk kept from registration id is called; the closures made by
\* computed keep no thunk.
CallThunk(id) ==
  /\ n < MaxOps
  /\ ~IsUpdateComputed(regs[id].obj.callback)
  /\ Commit(thunk(Begin, regs[id]),
            [op |-> "thunk", id |-> id, kind |-> regs[id].kind, key |-> regs[id].key,
             callback |-> regs[id].obj.callback, threw |-> FALSE])

NextRegistration ==
  \/ \E a \in RegistrationOnArgs : On(a.event, a.callback, NoOptions)
  \/ Once("e1", Fn("cbA"), NoOptions)
  \/ \E a \in RegistrationSubscribeArgs : Subscribe(a.key, a.callback, a.options)
  \/ \E id \in DOMAIN regs : CallThunk(id)
  \/ Emit("e1", [data |-> Str("d1"), options |-> [source |-> Undefined]])
  \/ SetState(Str("currentSection"), Str("about"), Undefined)

SpecRegistration == Init /\ [][NextRegistration]_vars

\* ------------------------------------------- one callback registered twice
\* The bus after a callback has been registered more than once for one
\* event name: twice as a persistent listener, with another listener in
\* between, and once in each registry.
DuplicateRegistrations ==
  { << [op |-> "on", key |-> "e1", callback |-> Fn("cbA")],
       [op |-> "on", key |-> "e1", callback |-> Fn("cbA")] >>,
    << [op |-> "on", key |-> "e1", callback |-> Fn("cbA")],
       [op |-> "on", key |-> "e1", callback |-> Fn("cbB")],
       [op |-> "on", key |-> "e1", callback |-> Fn("cbA")] >>,
    << [op |-> "once", key |-> "e1", callback |-> Fn("cbA")],
       [op |-> "on", key |-> "e1", callback |-> Fn("cbA")] >>,
    << [op |-> "on", key |-> "e2", callback |-> Fn("cbA")] >> }

InitDuplicates ==
  \E calls \in DuplicateRegistrations : \E w \in {AfterRegistrations(FreshStore, calls)} :
    /\ events = w.events
    /\ onceEvents = w.onceEvents
    /\ state = w.state
    /\ heap = w.heap
    /\ subscribers = w.subscribers
    /\ history = w.history
    /\ notify = w.notify
    /\ nextId = w.nextId
    /\ log = w.log
    /\ regs = w.regs
    /\ lastOp = [op |-> "new"]
    /\ n = 0
    /\ comp = w.comp

NextDuplicates ==
  \/ \E a \in RemovalArgs : Off(a.key, a.callback)
  \/ \E id \in DOMAIN regs : CallThunk(id)
  \/ \E a \in EmitArgs : Emit(a.event, a)
  \/ On("e1", Fn("cbA"), NoOptions)

SpecDuplicates == InitDuplicates /\ [][NextDuplicates]_vars

\* ------------------------------------------------------- namespaced views
\* Two views of one bus, used next to the bus itself; the prefix of a view is
\* any string, the empty one included.
NamespacePrefixes == {"ui", ""}
NamespaceEmitArgs ==
  { [data |-> Str("d1"), options |-> [source |-> Undefined]],
    [data |-> Undefined, options |-> [source |-> Str("caller")]] }

NsOn(namespace, event, callback, options) ==
  /\ n < MaxOps
  /\ Commit(nsOn(Begin, namespace, event, callback, options),
            [op |-> "nsOn", namespace |-> namespace, key |-> event, callback |-> callback,
             options |-> options, threw |-> FALSE])

NsOnce(namespace, event, callback, options) ==
  /\ n < MaxOps
  /\ Commit(nsOnce(Begin, namespace, event, callback, options),
            [op |-> "nsOnce", namespace |-> namespace, key |-> event, callback |-> callback,
             options |-> options, threw |-> FALSE])

NsOff(namespace, event, callback) ==
  /\ n < MaxOps
  /\ Commit(nsOff(Begin, namespace, event, callback),
            [op |-> "nsOff", namespace |-> namespace, key |-> event, callback |-> callback,
             threw |-> FALSE])

NsEmit(namespace, event, args) ==
  /\ n < MaxOps
  /\ Commit(nsEmit(Begin, namespace, event, args.data, args.options),
            [op |-> "nsEmit", namespace |-> namespace, key |-> event, data |-> args.data,
             options |-> args.options, threw |-> FALSE])

NextNamespace ==
  \/ \E ns \in NamespacePrefixes : NsOn(ns, "e1", Fn("cbA"), NoOptions)
  \/ NsOnce("ui", "e1", Fn("cbThrow"), NoOptions)
  \/ NsOff("ui", "e1", Fn("cbA"))
  \/ \E ns \in NamespacePrefixes, a \in NamespaceEmitArgs : NsEmit(ns, "e1", a)
  \/ On("e1", Fn("cbA"), NoOptions)
  \/ Emit("e1", [data |-> Str("d1"), options |-> [source |-> Undefined]])

SpecNamespace == Init /\ [][NextNamespace]_vars

\* ------------------------------------------------------- a long-lived store
\* A store that has already served j silent writes of currentSection, the
\* values 1 .. j in turn: its history holds min(j, maxHistoryLength) entries.
RECURSIVE StoreAfterWrites(_)
StoreAfterWrites(j) ==
  IF j = 0 THEN FreshStore
  ELSE CHOOSE w \in {setState(v, Str("currentSection"), Num(j), Bool(TRUE)) :
                       v \in {StoreAfterWrites(j - 1)}} : TRUE

\* How many writes the store has served when the run starts: none, and
\* enough to be two entries below the cap, one below, at the cap, beyond it.
WritesServed ==
  {0, maxHistoryLength - 2, maxHistoryLength - 1, maxHistoryLength, maxHistoryLength + 1}

InitLongLived ==
  \E j \in WritesServed : \E w \in {StoreAfterWrites(j)} :
    /\ events = <<>>
    /\ onceEvents = <<>>
    /\ state = w.state
    /\ heap = w.heap
    /\ subscribers = <<>>
    /\ history = w.history
    /\ notify = <<>>
    /\ nextId = 1
    /\ log = <<>>
    /\ regs = <<>>
    /\ lastOp = [op |-> "new"]
    /\ n = 0
    /\ comp = w.comp

HistorySetStateArgs ==
  { [key |-> Str("currentSection"), value |-> Str("about"), silent |-> Undefined],
    [key |-> Str("a.b"), value |-> Num(1), silent |-> Bool(TRUE)],
    [key |-> Bulk(<< [k |-> "currentSection", v |-> Str("about")],
                     [k |-> "a.b", v |-> Num(1)] >>),
     value |-> Undefined, silent |-> Undefined] }
HistoryUpdateFns ==
  { << Set("currentSection", Num(1)), Set("a.b", Num(2)), Set("currentSection", Num(3)) >>,
    << Set("a.b", Num(1)), Raise >> }
HistoryResetArgs == { Null, PathList(<<"currentSection", "preferences">>) }

NextLongLived ==
  \/ \E a \in HistorySetStateArgs : SetState(a.key, a.value, a.silent)
  \/ \E f \in HistoryUpdateFns : Batch(f)
  \/ \E k \in HistoryResetArgs : ResetState(k)

SpecLongLived == InitLongLived /\ [][NextLongLived]_vars

\* ------------------------------------------------------------ observations
\* The calls recorded in a log: all of them, those of one object, those of
\* one object during top-level call k.
CallIdx(lg) == {i \in DOMAIN lg : lg[i].type = "call"}
TotalCalls(lg, id) == {i \in CallIdx(lg) : lg[i].id = id}
CallsIn(lg, k, id) == {i \in CallIdx(lg) : lg[i].id = id /\ lg[i].n = k}
IsBusCall(i) == log[i].type = "call" /\ regs[log[i].id].kind \in {"on", "once"}
Priority(i) == regs[log[i].id].obj.priority.v

\* The envelope emit(e, d, {source}) is to deliver: data d (null when d is
\* omitted), the given source or 'unknown' when none is given.
ExpectedEnvelope(op) ==
  [type |-> op.key,
   data |-> IF op.data = Undefined THEN Null ELSE op.data,
   source |-> IF op.options.source = Undefined THEN Str("unknown") ELSE op.options.source]

\* ------------------------------------------------------------------ claims
\* C1: every emit(e, d) invokes each listener registered with on(e, cb) (and
\* not removed) exactly once, before emit returns, with the envelope
\* {type: e, data: d, source: the emitter's source or 'unknown'}.
C1_EmitInvokesListenerOnce ==
  [][ lastOp'.op = "emit" =>
        \A id \in Ids(events, lastOp'.key) :
          /\ Cardinality(CallsIn(log', n', id)) = 1
          /\ \A i \in CallsIn(log', n', id) :
               log'[i].args = <<ExpectedEnvelope(lastOp')>> ]_vars

C1_Witness ==
  /\ lastOp.op = "emit"
  /\ \E i \in CallIdx(log) :
       /\ log[i].n = n
       /\ regs[log[i].id].kind = "on"
       /\ log[i].args[1].data = Str("d2")
       /\ log[i].args[1].source = Str("nav")

\* C2: a listener registered with once(e, cb) is invoked exactly once in
\* total: by the first emit(e, d) that follows, with d as data; no later
\* emit invokes it.
C2_OnceInvokedByFirstEmitOnly ==
  /\ [](\A id \in DOMAIN regs :
          regs[id].kind = "once" => Cardinality(TotalCalls(log, id)) <= 1)
  /\ [][ lastOp'.op = "emit" =>
           \A id \in Ids(onceEvents, lastOp'.key) :
             /\ Cardinality(CallsIn(log', n', id)) = 1
             /\ \A i \in CallsIn(log', n', id) :
                  log'[i].args[1].data = ExpectedEnvelope(lastOp').data
             /\ id \notin AllIds(onceEvents') ]_vars

C2_Witness ==
  /\ lastOp.op = "emit"
  /\ \E id \in DOMAIN regs :
       /\ regs[id].kind = "once"
       /\ regs[id].key = lastOp.key
       /\ Cardinality(TotalCalls(log, id)) = 1
       /\ \A i \in TotalCalls(log, id) : log[i].n = n - 1

\* C3 as claimed: within one emit, of any two listeners (registered with on
\* or with once) the one with the strictly higher priority runs first.
C3_Original ==
  \A i, j \in DOMAIN log :
    (i < j /\ IsBusCall(i) /\ IsBusCall(j) /\ log[i].n = log[j].n)
      => Priority(i) >= Priority(j)

\* C3 as amended: within one emit, of two listeners of the same registry
\* (both on, or both once) the one with the strictly higher priority runs
\* first whatever the registration order; every persistent listener runs
\* before every once listener, whatever their priorities.
C3_PriorityOrderWithinRegistry ==
  \A i, j \in DOMAIN log :
    (i < j /\ IsBusCall(i) /\ IsBusCall(j) /\ log[i].n = log[j].n)
      => /\ regs[log[i].id].kind = regs[log[j].id].kind => Priority(i) >= Priority(j)
         /\ ~(regs[log[i].id].kind = "once" /\ regs[log[j].id].kind = "on")

C3_Witness ==
  \E i, j \in DOMAIN log :
    /\ i < j /\ IsBusCall(i) /\ IsBusCall(j) /\ log[i].n = log[j].n
    /\ regs[log[i].id].kind = regs[log[j].id].kind
    /\ Priority(i) > Priority(j)
    /\ log[i].id > log[j].id

\* C4: when a listener raises during emit(e), emit does not raise and every
\* other listener of e, persistent or once, is still invoked by that emit.
C4_ThrowingListenerIsIsolated ==
  [][ lastOp'.op = "emit" =>
        /\ ~lastOp'.threw
        /\ \A id \in Ids(events, lastOp'.key) \cup Ids(onceEvents, lastOp'.key) :
             CallsIn(log', n', id) # {} ]_vars

C4_Witness ==
  /\ lastOp.op = "emit"
  /\ ~lastOp.threw
  /\ \E i, j \in CallIdx(log) :
       /\ i < j /\ log[i].n = n /\ log[j].n = n
       /\ CallbackThrows(log[i].callback)
       /\ ~CallbackThrows(log[j].callback)

\* The path strings of the model, and Array.prototype.join('.') on their
\* segments: the inverse of split.
PathStrings ==
  {"currentSection", "preferences", "preferences.reducedMotion", "preferences.fontSize",
   "theme", "theme.mode", "a", "a.b", "a.b.c"}
join(keys) == CHOOSE p \in PathStrings : split(p) = keys

\* obj.k1.k2...: plain property reads
RECURSIVE PropPath(_, _, _)
PropPath(w, obj, keys) ==
  IF Len(keys) = 0 THEN obj
  ELSE PropPath(w, GetProp(w, obj, Head(keys)), Tail(keys))

\* The store after the step, for getState in an action formula.
WorldAfter == [state |-> state', heap |-> heap']

\* The registries of the bus after the step, for getListenerCount.
WorldAfterBus == [events |-> events', onceEvents |-> onceEvents']

\* silent is omitted or false
NotSilent(silent) == silent \in {Undefined, Bool(FALSE)}
IsSinglePath(op) == op.op = "setState" /\ op.key.t = "string"

\* The statements of an updateFn that are executed: those before its first
\* throw; and the paths they write without the silent flag.
RECURSIVE Executed(_)
Executed(body) ==
  IF Len(body) = 0 \/ Head(body).op = "throw" THEN <<>>
  ELSE <<Head(body)>> \o Executed(Tail(body))
Raises(body) == \E i \in DOMAIN body : body[i].op = "throw"
NotifiedPaths(body) ==
  {Executed(body)[i].key.v : i \in {j \in DOMAIN Executed(body) : NotSilent(Executed(body)[j].silent)}}

\* Every call made during top-level call k comes after the mark "finally".
CallsFollowFinally(lg, k) ==
  \A i \in CallIdx(lg) :
    lg[i].n = k => \E f \in DOMAIN lg : lg[f].type = "finally" /\ lg[f].n = k /\ f < i

\* During top-level call k each subscription that paths p had before the call
\* was invoked exactly once, with (the value of p after the call, p), and
\* nothing else was invoked.
NotifiedOnceWithFinalValue(paths, k) ==
  /\ \A p \in paths : \A id \in Ids(subscribers, p) :
       /\ Cardinality(CallsIn(log', k, id)) = 1
       /\ \A i \in CallsIn(log', k, id) :
            log'[i].args = <<getState(WorldAfter, p), Str(p)>>
  /\ \A i \in CallIdx(log') :
       log'[i].n = k => \E p \in paths : log'[i].id \in Ids(subscribers, p)

\* C5: after setState(p, v) for a single path p, getState(p) is v and the
\* object read at every ancestor path leads to v through the remaining
\* segments (getState("a").b = v for p = "a.b").
C5_SetThenGet ==
  IsSinglePath(lastOp) =>
    LET keys == split(lastOp.key.v) IN
      /\ getState(World, lastOp.key.v) = lastOp.value
      /\ \A m \in 1..(Len(keys) - 1) :
           PropPath(World, getState(World, join(SubSeq(keys, 1, m))),
                    SubSeq(keys, m + 1, Len(keys))) = lastOp.value

C5_Witness ==
  /\ IsSinglePath(lastOp)
  /\ lastOp.key.v = "a.b.c"
  /\ PropPath(World, getState(World, "a"), <<"b", "c">>) = Num(1)

\* C6: a fresh store has currentSection = "hero"; a non-silent setState(p, v)
\* outside a batch invokes every subscriber of p with (v, p), so
\* setState("currentSection", "about") hands ("about", "currentSection") to a
\* subscriber of "currentSection".
C6_SubscriberReceivesValueAndPath ==
  /\ [](n = 0 => getState(World, "currentSection") = Str("hero"))
  /\ [][ (IsSinglePath(lastOp') /\ NotSilent(lastOp'.silent)) =>
           \A id \in Ids(subscribers, lastOp'.key.v) :
             /\ Cardinality(CallsIn(log', n', id)) = 1
             /\ \A i \in CallsIn(log', n', id) :
                  log'[i].args = <<lastOp'.value, lastOp'.key>> ]_vars

C6_Witness ==
  /\ IsSinglePath(lastOp)
  /\ lastOp.key = Str("currentSection")
  /\ \E i \in CallIdx(log) :
       log[i].n = n /\ log[i].args = <<Str("about"), Str("currentSection")>>

\* C7: subscribe(k, cb, options) with immediate true or omitted invokes cb
\* exactly once before it returns, with (current value of k, k);
\* with immediate: false it invokes nothing.
C7_ImmediateCallAtSubscribe ==
  (lastOp.op = "subscribe" /\ ~lastOp.threw) =>
    LET during == {i \in CallIdx(log) : log[i].n = n} IN
      IF lastOp.options.immediate \in {Undefined, Bool(TRUE)}
      THEN /\ Cardinality(during) = 1
           /\ \A i \in during :
                /\ log[i].id = nextId - 1
                /\ log[i].callback = lastOp.callback
                /\ log[i].args = <<getState(World, lastOp.key), Str(lastOp.key)>>
      ELSE during = {}

C7_Witness ==
  /\ lastOp.op = "subscribe"
  /\ lastOp.options.immediate = Undefined
  /\ history = <<>>
  /\ \E i \in CallIdx(log) :
       log[i].n = n /\ log[i].args = <<Str("hero"), Str("currentSection")>>

\* C8 as claimed: a subscription made with {once: true, immediate: false} on
\* k, and followed by non-silent setState(k, ...) calls only, is invoked
\* exactly once in total, by the first of them.
C8_Original ==
  \A id \in DOMAIN regs :
    (/\ regs[id].kind = "subscribe"
     /\ Truthy(regs[id].obj.once)
     /\ ~regs[id].obj.immediate
     /\ regs[id].removed = 0
     /\ \A i \in DOMAIN log :
          (log[i].n > regs[id].at /\ log[i].type = "write")
            => (log[i].key = Str(regs[id].key) /\ ~log[i].silent)
     /\ \A i \in DOMAIN log : log[i].n > regs[id].at => log[i].type # "finally")
    => LET writes == {log[i].n : i \in {j \in DOMAIN log :
                         log[j].type = "write" /\ log[j].n > regs[id].at}}
       IN IF writes = {} THEN TotalCalls(log, id) = {}
          ELSE /\ Cardinality(TotalCalls(log, id)) = 1
               /\ \A i \in TotalCalls(log, id) : \A k \in writes : log[i].n <= k

\* C9: while batch runs updateFn no subscriber is notified; when updateFn has
\* returned, the subscribers of each path it wrote non-silently are invoked
\* exactly once per path, with the final value of the path.
C9_BatchNotifiesOncePerPath ==
  [][ (lastOp'.op = "batch" /\ ~lastOp'.threw) =>
        /\ CallsFollowFinally(log', n')
        /\ NotifiedOnceWithFinalValue(NotifiedPaths(lastOp'.body), n') ]_vars

C9_Witness ==
  /\ lastOp.op = "batch"
  /\ ~lastOp.threw
  /\ lastOp.body = << Set("currentSection", Num(1)), Set("currentSection", Num(2)) >>
  /\ \E i \in CallIdx(log) :
       log[i].n = n /\ log[i].args = <<Num(2), Str("currentSection")>>

\* C10: when updateFn raises, batch restores the notification method,
\* notifies the paths written before the raise once each with their final
\* value, and lets the exception reach its caller; a later non-silent
\* setState notifies at once.
C10_BatchRestoresWhenUpdateFnRaises ==
  /\ [](notify = <<>>)
  /\ [][ lastOp'.op = "batch" =>
           /\ lastOp'.threw = Raises(lastOp'.body)
           /\ lastOp'.threw =>
                /\ CallsFollowFinally(log', n')
                /\ NotifiedOnceWithFinalValue(NotifiedPaths(lastOp'.body), n') ]_vars
  /\ [][ (/\ lastOp.op = "batch" /\ lastOp.threw
          /\ IsSinglePath(lastOp') /\ NotSilent(lastOp'.silent)) =>
           \A id \in Ids(subscribers, lastOp'.key.v) :
             \E i \in CallsIn(log', n', id) :
               log'[i].args = <<lastOp'.value, lastOp'.key>> ]_vars

C10_Witness ==
  /\ lastOp.op = "batch"
  /\ lastOp.threw
  /\ \E i \in CallIdx(log) :
       log[i].n = n /\ log[i].args = <<Num(3), Str("currentSection")>>

\* The marks and calls recorded during top-level call k, as positions of lg.
WritesIn(lg, k) == {i \in DOMAIN lg : lg[i].type = "write" /\ lg[i].n = k}
AllCallsIn(lg, k) == {i \in CallIdx(lg) : lg[i].n = k}
IsBulk(op) == op.op = "setState" /\ op.key.t = "object"

ComputedFns(rg) == {rg[i].obj.callback : i \in {j \in DOMAIN rg : IsUpdateComputed(rg[j].obj.callback)}}

\* computeFn applied to the values the dependencies of f have in w.
Derived(w, f) ==
  ApplyFn(w, f.computeFn, [i \in DOMAIN f.dependencies |-> getState(w, f.dependencies[i])])

\* The paths a top-level setState writes.
WrittenPaths(op) ==
  IF op.key.t = "string" THEN {op.key.v}
  ELSE {op.key.entries[i].k : i \in DOMAIN op.key.entries}

\* In lg, the first return mark after position i (0 if there is none).
ReturnAfter(lg, i) ==
  IF \E j \in DOMAIN lg : j > i /\ lg[j].type = "return"
  THEN CHOOSE j \in DOMAIN lg :
         /\ j > i /\ lg[j].type = "return"
         /\ \A m \in (i + 1)..(j - 1) : lg[m].type # "return"
  ELSE 0

\* C12: when computed(fn, deps, z) returns, getState(z) is fn of the current
\* values of deps and no subscriber has been invoked; after every non-silent
\* top-level setState that writes a path of deps, getState(z) is again fn of
\* the current values of deps; and between the call of updateComputed and its
\* return (the silent write of z) no subscriber is invoked.
C12_ComputedFollowsDependencies ==
  /\ [][ (lastOp'.op = "computed" /\ ~lastOp'.threw) =>
           /\ getState(WorldAfter, lastOp'.targetKey)
                = Derived(WorldAfter, [computeFn |-> lastOp'.computeFn,
                                       dependencies |-> lastOp'.dependencies])
           /\ AllCallsIn(log', n') = {} ]_vars
  /\ [][ (lastOp'.op = "setState" /\ NotSilent(lastOp'.silent)) =>
           \A f \in ComputedFns(regs) :
             (\E i \in DOMAIN f.dependencies : f.dependencies[i] \in WrittenPaths(lastOp'))
               => getState(WorldAfter, f.targetKey) = Derived(WorldAfter, f) ]_vars
  /\ [][ \A i \in AllCallsIn(log', n') :
           IsUpdateComputed(log'[i].callback) =>
             /\ ReturnAfter(log', i) # 0
             /\ \A j \in (i + 1)..(ReturnAfter(log', i) - 1) :
                  /\ log'[j].type = "write"
                  /\ log'[j].key = Str(log'[i].callback.targetKey)
                  /\ log'[j].silent ]_vars

C12_Witness ==
  /\ lastOp.op = "setState"
  /\ lastOp.key = Str("firstName")
  /\ \E i \in AllCallsIn(log, n) : IsUpdateComputed(log[i].callback)
  /\ getState(World, "fullName") = Str("Jane hero")

\* A value with the objects it refers to written out: two values are the
\* same tree of keys and primitives iff their Deep forms are equal.
RECURSIVE Deep(_, _)
Deep(w, v) ==
  IF v.t = "object"
  THEN [kind |-> IF v.ref = 0 THEN "Object" ELSE w.heap[v.ref].kind,
        props |-> [k \in DOMAIN Props(w, v.ref) |-> Deep(w, Props(w, v.ref)[k])]]
  ELSE v

\* The default tree, and the value read in it at path p (Undefined if absent).
DefaultTree == [state |-> InitialRoot(0), heap |-> InitialObjects]
DefaultValue(p) == Deep(DefaultTree, getState(DefaultTree, p))

\* The store before the step.
WorldBefore == [state |-> state, heap |-> heap]

\* Paths of the tree that the formulas look at.
TreePaths ==
  {"isLoading", "currentSection", "theme", "theme.mode", "preferences",
   "preferences.reducedMotion", "preferences.fontSize", "skills", "modalContent",
   "firstName", "fullName", "a", "a.b"}

\* p is q or lies below q; p and q lie on one branch of the tree.
IsPrefix(a, b) == Len(a) <= Len(b) /\ SubSeq(b, 1, Len(a)) = a
Below(p, q) == IsPrefix(split(q), split(p))
Related(p, q) == Below(p, q) \/ Below(q, p)

\* The paths written during top-level call k by the closures updateComputed
\* (silently), and by anything at all.
ComputedWrites(lg, k) == {lg[i].key.v : i \in {j \in WritesIn(lg, k) : lg[j].silent}}
AllWrites(lg, k) == {lg[i].key.v : i \in WritesIn(lg, k)}

IsResetOf(op) == op.op = "resetState" /\ op.keys # Null
Listed(op) == {op.keys.items[i] : i \in DOMAIN op.keys.items}

IsFullReset(op) == op.op = "resetState" /\ op.keys = Null

\* C14: resetState() makes the tree the default tree: every default key has
\* its default value and no other key is left (but for what a derived value
\* then writes when its dependency is notified); then every subscription of
\* every path that has subscribers is invoked exactly once, with (value, path)
\* where value is read from the reset tree.
C14_FullResetRestoresDefaults ==
  [][ IsFullReset(lastOp') =>
        /\ ~lastOp'.threw
        /\ ComputedWrites(log', n') = {}
             => Deep(WorldAfter, Root) = Deep(DefaultTree, Root)
        /\ \A p \in TreePaths :
             (\A q \in ComputedWrites(log', n') : ~Related(p, q))
               => Deep(WorldAfter, getState(WorldAfter, p)) = DefaultValue(p)
        /\ \A k \in DOMAIN state' :
             k \in InitialKeys \/ \E q \in ComputedWrites(log', n') : split(q)[1] = k
        /\ \A i \in DOMAIN subscribers : \A id \in Ids(subscribers, subscribers[i].k) :
             /\ Cardinality(CallsIn(log', n', id)) = 1
             /\ \A c \in CallsIn(log', n', id) :
                  /\ log'[c].args[2] = Str(subscribers[i].k)
                  /\ (\A q \in ComputedWrites(log', n') : ~Related(subscribers[i].k, q))
                       => Deep(WorldAfter, log'[c].args[1]) = DefaultValue(subscribers[i].k)
        /\ \A c \in AllCallsIn(log', n') : \E i \in DOMAIN subscribers :
             log'[c].id \in Ids(subscribers, subscribers[i].k) ]_vars

C14_Witness ==
  /\ IsFullReset(lastOp)
  /\ \E i \in DOMAIN log :
       /\ log[i].type = "write" /\ log[i].key.t = "object"
       /\ \E j \in DOMAIN log[i].key.entries : log[i].key.entries[j].k = "firstName"
       /\ \E j \in DOMAIN log[i].key.entries : log[i].key.entries[j].k = "currentSection"
  /\ "firstName" \notin DOMAIN state
  /\ \E c \in AllCallsIn(log, n) : log[c].args = <<Str("hero"), Str("currentSection")>>

Min(a, b) == IF a < b THEN a ELSE b

\* C15: the history never holds more than maxHistoryLength entries; a call
\* that makes k setState calls appends k entries in call order, the last one
\* holding the tree as that setState left it, and drops from the front
\* exactly the entries in excess of the cap: what is kept of the old history
\* is its tail, in the same order.
C15_HistoryIsCappedFifo ==
  /\ [](Len(history) <= maxHistoryLength)
  /\ [][ LET k == Cardinality(WritesIn(log', n'))
             kept == Len(history') - k
             dropped == Len(history) - kept
         IN /\ Len(history') = Min(maxHistoryLength, Len(history) + k)
            /\ dropped >= 0
            /\ \A i \in 1..kept : history'[i] = history[i + dropped]
            /\ (k > 0 /\ lastOp'.op = "setState") => history'[Len(history')].newState = state'
            /\ \A i \in (kept + 1)..(Len(history') - 1) :
                 history'[i + 1].oldState = history'[i].newState ]_vars

C15_Witness ==
  /\ lastOp.op = "batch"
  /\ Len(history) = maxHistoryLength
  /\ history[1].oldState.currentSection = Num(3)
  /\ history[maxHistoryLength].newState.currentSection = Num(3)
  /\ history[maxHistoryLength - 3].newState.currentSection = Num(maxHistoryLength)

\* The path string under which the subscription called at position c of the
\* log was registered.
SubscribedPath(c) == regs'[log'[c].id].key

\* C16: a top-level setState invokes only subscriptions registered under
\* exactly a path string it writes, and hands them that string: a write to
\* "preferences.reducedMotion" does not invoke a subscriber of "preferences",
\* a write to "preferences" does not invoke a subscriber of
\* "preferences.reducedMotion".
C16_ExactPathMatch ==
  [][ lastOp'.op = "setState" =>
        \A c \in AllCallsIn(log', n') :
          /\ SubscribedPath(c) \in WrittenPaths(lastOp')
          /\ log'[c].args[2] = Str(SubscribedPath(c)) ]_vars

C16_Witness ==
  /\ lastOp.op = "setState"
  /\ lastOp.key = Str("preferences.reducedMotion")
  /\ MapHas(subscribers, "preferences")
  /\ MapHas(subscribers, "preferences.reducedMotion")
  /\ Cardinality(AllCallsIn(log, n)) = 1
  /\ \A c \in AllCallsIn(log, n) :
       log[c].args = <<Bool(TRUE), Str("preferences.reducedMotion")>>

\* The calls of top-level call k whose callback raises.
RaisingCallsIn(lg, k) == {c \in AllCallsIn(lg, k) : CallbackThrows(lg[c].callback)}

\* C17: a non-silent top-level setState during which a subscriber raises
\* returns normally; the exception is caught where the subscriber was called
\* and logged; and every subscription of every written path, the raising
\* ones, their neighbours in the same bucket and those of the other paths of
\* a bulk update, is invoked.
C17_RaisingSubscriberIsIsolated ==
  [][ (/\ lastOp'.op = "setState"
       /\ NotSilent(lastOp'.silent)
       /\ RaisingCallsIn(log', n') # {}) =>
        /\ ~lastOp'.threw
        /\ \A c \in RaisingCallsIn(log', n') :
             /\ c + 1 \in DOMAIN log'
             /\ log'[c + 1].type = "error"
             /\ log'[c + 1].key = SubscribedPath(c)
        /\ \A p \in WrittenPaths(lastOp') : \A id \in Ids(subscribers, p) :
             CallsIn(log', n', id) # {} ]_vars

C17_Witness ==
  /\ IsBulk(lastOp)
  /\ ~lastOp.threw
  /\ \E c \in RaisingCallsIn(log, n) : \E e \in AllCallsIn(log, n) :
       /\ c < e
       /\ log[c].args = <<Str("about"), Str("currentSection")>>
       /\ log[e].callback = Fn("cbA") /\ log[e].args = <<Num(1), Str("a.b")>>

\* C18: on(name, cb) and subscribe(path, cb) raise exactly when cb is not a
\* function, and then they leave the listener and subscriber maps as they
\* were (no handler, no bucket for the name or path) and invoke nothing.
C18_NonFunctionIsRejected ==
  [][ lastOp'.op \in {"on", "subscribe"} =>
        /\ lastOp'.threw = ~IsFunction(lastOp'.callback)
        /\ lastOp'.threw =>
             /\ events' = events
             /\ onceEvents' = onceEvents
             /\ subscribers' = subscribers
             /\ MapHas(events', lastOp'.key) = MapHas(events, lastOp'.key)
             /\ MapHas(subscribers', lastOp'.key) = MapHas(subscribers, lastOp'.key)
             /\ regs' = regs
             /\ AllCallsIn(log', n') = {} ]_vars

C18_Witness ==
  /\ lastOp.op = "subscribe"
  /\ lastOp.threw
  /\ lastOp.key = "a.b"
  /\ ~MapHas(subscribers, "a.b")
  /\ \E i \in DOMAIN regs : regs[i].kind = "on"

\* The handlers of event e, in both registries, whose callback is cb; the
\* subscriptions of path p whose callback is cb.
ListenersOf(ev, once_, e, cb) ==
  {h \in {MapGet(ev, e)[i] : i \in IF MapHas(ev, e) THEN DOMAIN MapGet(ev, e) ELSE {}}
        \cup {MapGet(once_, e)[i] : i \in IF MapHas(once_, e) THEN DOMAIN MapGet(once_, e) ELSE {}} :
     h.callback = cb}
SubscribersOf(subs, p, cb) ==
  {x \in {MapGet(subs, p)[i] : i \in IF MapHas(subs, p) THEN DOMAIN MapGet(subs, p) ELSE {}} :
     x.callback = cb}

\* C19: when the thunk returned by on(e, cb) is called while cb is registered
\* exactly once for e (one persistent listener, no once listener), cb is no
\* longer registered for e and the listener count of e is one less; likewise the thunk of subscribe(p, cb,
\* {immediate: false}) leaves cb unsubscribed from p; and an emit(e) or a
\* setState(p, ...) invokes only what is registered for e or p when it is
\* called, so cb is not invoked again unless it is registered again.
C19_ThunkUnregisters ==
  /\ [][ (/\ lastOp'.op = "thunk" /\ lastOp'.kind = "on"
          /\ Cardinality(ListenersOf(events, <<>>, lastOp'.key, lastOp'.callback)) = 1
          /\ ListenersOf(<<>>, onceEvents, lastOp'.key, lastOp'.callback) = {}) =>
           /\ ListenersOf(events', onceEvents', lastOp'.key, lastOp'.callback) = {}
           /\ getListenerCount(WorldAfterBus, lastOp'.key)
                = getListenerCount(World, lastOp'.key) - 1 ]_vars
  /\ [][ (/\ lastOp'.op = "thunk" /\ lastOp'.kind = "subscribe"
          /\ Cardinality(SubscribersOf(subscribers, lastOp'.key, lastOp'.callback)) = 1) =>
           SubscribersOf(subscribers', lastOp'.key, lastOp'.callback) = {} ]_vars
  /\ [][ lastOp'.op = "emit" =>
           \A c \in AllCallsIn(log', n') :
             ListenersOf(events, onceEvents, lastOp'.key, log'[c].callback) # {} ]_vars
  /\ [][ (lastOp'.op = "setState" /\ lastOp'.key.t = "string") =>
           \A c \in AllCallsIn(log', n') :
             SubscribersOf(subscribers, lastOp'.key.v, log'[c].callback) # {} ]_vars

C19_Witness ==
  /\ lastOp.op = "emit"
  /\ n = 3
  /\ \E id \in DOMAIN regs :
       /\ regs[id].kind = "on" /\ regs[id].key = lastOp.key
       /\ regs[id].at = 1 /\ regs[id].removed = 2
  /\ AllCallsIn(log, 3) = {}

\* The name a view with the given prefix uses for the event name of op.
ViewName(op) == op.namespace \o ":" \o op.key

\* The view registers under prefix:name: on and once add one handler to the
\* bucket of that name, in their registry, and touch no other bucket.
ViewRegisters ==
  /\ [][ lastOp'.op = "nsOn" =>
           /\ Ids(events', ViewName(lastOp')) = Ids(events, ViewName(lastOp')) \cup {nextId}
           /\ \A e \in {"e1", ":e1", "ui:e1"} \ {ViewName(lastOp')} :
                Ids(events', e) = Ids(events, e)
           /\ onceEvents' = onceEvents ]_vars
  /\ [][ lastOp'.op = "nsOnce" =>
           /\ Ids(onceEvents', ViewName(lastOp')) = Ids(onceEvents, ViewName(lastOp')) \cup {nextId}
           /\ events' = events ]_vars

\* The view removes under prefix:name: one handler with the callback leaves
\* the bucket of that name when it holds one, and no other bucket changes.
ViewRemoves ==
  [][ lastOp'.op = "nsOff" =>
        /\ Cardinality(Ids(events', ViewName(lastOp')))
             = Cardinality(Ids(events, ViewName(lastOp')))
               - (IF ListenersOf(events, <<>>, ViewName(lastOp'), lastOp'.callback) # {}
                  THEN 1 ELSE 0)
        /\ \A e \in {"e1", ":e1", "ui:e1"} \ {ViewName(lastOp')} :
             Ids(events', e) = Ids(events, e)
        /\ onceEvents' = onceEvents ]_vars

\* The view emits under prefix:name: every handler of that name, in both
\* registries, is invoked once and no other handler is invoked.
ViewEmits ==
  [][ lastOp'.op = "nsEmit" =>
        /\ \A id \in Ids(events, ViewName(lastOp')) \cup Ids(onceEvents, ViewName(lastOp')) :
             Cardinality(CallsIn(log', n', id)) = 1
        /\ \A c \in AllCallsIn(log', n') :
             log'[c].id \in Ids(events, ViewName(lastOp')) \cup Ids(onceEvents, ViewName(lastOp')) ]_vars

\* The envelopes of an emit through the view have type prefix:name.
ViewEnvelopeType ==
  [][ lastOp'.op = "nsEmit" =>
        \A c \in AllCallsIn(log', n') :
          /\ log'[c].args[1].type = ViewName(lastOp')
          /\ log'[c].args[1].data = Default(lastOp'.data, Null) ]_vars

\* The envelopes of an emit through the view have source = prefix.
ViewEnvelopeSource ==
  [][ lastOp'.op = "nsEmit" =>
        \A c \in AllCallsIn(log', n') :
          log'[c].args[1].source = Str(lastOp'.namespace) ]_vars

\* C20: the view returned by namespace(prefix) registers, removes and emits
\* under the event name prefix + ":" + name; every envelope emitted through
\* the view has type prefix:name and source = prefix, whatever source the
\* caller passed in options; a listener registered through the view is
\* reached by an emit through the view with the same name.
C20_Original ==
  /\ ViewRegisters
  /\ ViewRemoves
  /\ ViewEmits
  /\ ViewEnvelopeType
  /\ ViewEnvelopeSource

\* The paths a setState call notifies.
PathsOf(op) ==
  IF op.key.t = "object" THEN {op.key.entries[i].k : i \in DOMAIN op.key.entries}
  ELSE {op.key.v}

\* The calls of the step in which the callback unsubscribes from path p.
UnsubscribingCalls(lg, k, p) ==
  {c \in AllCallsIn(lg, k) :
     /\ IsCalls(lg[c].callback)
     /\ lg[c].callback.does.op = "unsubscribe"
     /\ lg[c].callback.does.key = p}

\* C24: setState returns normally when a subscriber of path p removes a
\* subscription of p from inside its callback during the notification of p,
\* also when that leaves p without subscribers; the subscribers of the
\* snapshot are still invoked and the other paths of a bulk write are still
\* notified.
C24_Original ==
  [][ (/\ lastOp'.op = "setState"
       /\ \E p \in PathsOf(lastOp') : UnsubscribingCalls(log', n', p) # {}) =>
        /\ ~lastOp'.threw
        /\ \A p \in PathsOf(lastOp') : \A id \in Ids(subscribers, p) :
             CallsIn(log', n', id) # {} ]_vars

\* All the calls of object id, in every top-level call so far.
CallsOf(lg, id) == {i \in CallIdx(lg) : lg[i].id = id}

\* C25: a registration made with once(e, cb) is invoked at most once in
\* total, whatever on/once/off/emit calls are made, emit(e) from inside a
\* listener of e included.
C25_Original ==
  \A i \in DOMAIN regs :
    regs[i].kind = "once" => Cardinality(CallsOf(log, regs[i].id)) <= 1

\* C26: a subscription made with once: true (and immediate: false) receives
\* at most one change notification in total, also when its callback raises
\* and when its callback calls setState on the same path.
C26_Original ==
  \A i \in DOMAIN regs :
    (regs[i].kind = "subscribe" /\ Truthy(regs[i].obj.once) /\ ~regs[i].obj.immediate) =>
      Cardinality(CallsOf(log, regs[i].id)) <= 1

\* C27: in every change notification the value handed to a subscriber of
\* path p is what getState(p) returns at the moment the callback is invoked.
C27_Original ==
  \A i \in DOMAIN log :
    log[i].type = "tree" =>
      /\ i + 1 \in DOMAIN log
      /\ log[i + 1].type = "call"
      /\ log[i + 1].args[1] = log[i].value

\* The calls of the step whose callback emits from its body.
EmittingCalls(lg, k) ==
  {c \in AllCallsIn(lg, k) : IsCalls(lg[c].callback) /\ lg[c].callback.does.op = "emit"}

\* C29: dispatch works on a snapshot of the registrations taken when the
\* emission starts: a listener registered for e (with on or once) from inside
\* a listener while emit(e) is in progress is not invoked by that emission,
\* and a listener removed with off during the emission is still invoked by it.
\* Stated for the emissions during which no listener emits.
C29_Original ==
  [][ (lastOp'.op = "emit" /\ EmittingCalls(log', n') = {}) =>
        /\ \A i \in DOMAIN regs' :
             (regs'[i].at = n' /\ regs'[i].key = lastOp'.key) =>
               CallsIn(log', n', regs'[i].id) = {}
        /\ \A id \in Ids(events, lastOp'.key) :
             id \notin Ids(events', lastOp'.key) =>
               Cardinality(CallsIn(log', n', id)) = 1 ]_vars

\* The position in the log where the Calls callback invoked at position c is
\* left: calls and "returned" marks nest like brackets.
RECURSIVE Closing(_, _, _)
Closing(lg, i, depth) ==
  IF i > Len(lg) THEN 0
  ELSE IF lg[i].type = "returned"
       THEN IF depth = 0 THEN i ELSE Closing(lg, i + 1, depth - 1)
  ELSE IF lg[i].type = "call" /\ IsCalls(lg[i].callback)
       THEN Closing(lg, i + 1, depth + 1)
  ELSE Closing(lg, i + 1, depth)
Left(lg, c) == Closing(lg, c + 1, 0)

\* The calls of the step whose body called setState or emit, and the
\* subscriptions or handlers that the nested call is to reach: those of its
\* path or event that are registered before and after the top-level call.
NestedCalls(lg, k) ==
  {c \in AllCallsIn(lg, k) :
     /\ IsCalls(lg[c].callback)
     /\ lg[c].callback.does.op \in {"setState", "emit"}
     /\ lg[c + 1].type # "returned"}
Targets(c) ==
  IF log'[c].callback.does.op = "setState"
  THEN Ids(subscribers, log'[c].callback.does.key)
         \cap Ids(subscribers', log'[c].callback.does.key)
  ELSE Ids(events, log'[c].callback.does.event)
         \cap Ids(events', log'[c].callback.does.event)

\* C30: re-entrancy is depth-first.  When a subscriber calls setState(q, ...)
\* from its callback, every subscriber of q is invoked before the callback
\* returns, hence before the next subscriber of the outer notification; and
\* when a listener calls emit(e2), every listener of e2 is invoked before the
\* listener returns.  (The subscribers and listeners meant are those
\* registered throughout the top-level call.)
C30_DepthFirst ==
  [][ \A c \in NestedCalls(log', n') :
        /\ Left(log', c) # 0
        /\ \A id \in Targets(c) :
             \E d \in CallsIn(log', n', id) : c < d /\ d < Left(log', c) ]_vars

C30_Witness ==
  /\ lastOp.op = "setState"
  /\ \E c, d, e \in AllCallsIn(log, n) :
       /\ log[c].callback = Body.SetQ
       /\ regs[log[d].id].key = Q
       /\ regs[log[e].id].key = P /\ log[e].callback = Fn("cbB")
       /\ c < d /\ d < Left(log, c) /\ Left(log, c) < e

\* Handler h1 is served before handler h2 by one emit: persistent before
\* once; within a registry the higher priority first, and of two equal
\* priorities the one registered first (identities grow with registration).
ServedBefore(r1, r2) ==
  \/ r1.kind = "on" /\ r2.kind = "once"
  \/ /\ r1.kind = r2.kind
     /\ \/ r1.obj.priority.v > r2.obj.priority.v
        \/ r1.obj.priority.v = r2.obj.priority.v /\ r1.id < r2.id

\* C28: one emit(e) invokes all persistent listeners of e, by descending
\* priority and equal priorities in registration order, then all once
\* listeners of e in the same ordering, each exactly once and nothing else,
\* and when it returns the once registry holds nothing for e, also when it
\* held nothing before.
C28_EmitServesBothRegistriesInOrder ==
  [][ lastOp'.op = "emit" =>
        /\ \A id \in Ids(events, lastOp'.key) \cup Ids(onceEvents, lastOp'.key) :
             Cardinality(CallsIn(log', n', id)) = 1
        /\ \A c \in AllCallsIn(log', n') :
             log'[c].id \in Ids(events, lastOp'.key) \cup Ids(onceEvents, lastOp'.key)
        /\ \A c1, c2 \in AllCallsIn(log', n') :
             c1 < c2 => ServedBefore(regs[log'[c1].id], regs[log'[c2].id])
        /\ ~MapHas(onceEvents', lastOp'.key)
        /\ events' = events ]_vars

C28_Witness ==
  /\ lastOp.op = "emit"
  /\ ~MapHas(onceEvents, lastOp.key)
  /\ \E c1, c2 \in AllCallsIn(log, n) :
       /\ c1 < c2
       /\ regs[log[c1].id].kind = "on"
       /\ regs[log[c2].id].kind = "once"
       /\ regs[log[c1].id].obj.priority.v < regs[log[c2].id].obj.priority.v

\* How many times a lifecycle hook has been called; the component events
\* emitted in top-level call k.
Times(lg, name) == Cardinality({i \in DOMAIN lg : lg[i].type = "step" /\ lg[i].name = name})
EmittedIn(lg, k, event) ==
  {i \in DOMAIN lg : lg[i].type = "emitted" /\ lg[i].event = event /\ lg[i].n = k}

\* C21: whatever init() calls are made on a component, also one made before
\* an earlier init() has finished (the constructor's autoInit call followed
\* by an explicit init()), setup, render and bindEvents run at most once.
\* Stated for the components none of whose hooks raises.
C21_Original ==
  comp.raises = "none" =>
    /\ Times(log, "setup") <= 1
    /\ Times(log, "render") <= 1
    /\ Times(log, "bindEvents") <= 1

\* The subscriptions made through subscribeToState: their context is the
\* component.
ComponentSubscriptions(rg) ==
  {rg[i].id : i \in {j \in DOMAIN rg : rg[j].kind = "subscribe" /\ rg[j].obj.context = Obj(-1)}}

\* C22: when destroy() completes, no handler added through addEventListener
\* is attached to its target any more, no callback added through
\* subscribeToState is subscribed in the store, and eventListeners and
\* stateSubscriptions are empty, whatever addEventListener and
\* subscribeToState calls were made before destroy() was called.
C22_Original ==
  [][ (/\ lastOp'.op = "resume" /\ lastOp'.fn = "destroy"
       /\ comp'.calls[lastOp'.call].outcome = "resolved"
       /\ comp'.isDestroyed
       /\ comp'.added < comp'.calls[lastOp'.call].at) =>
        /\ comp'.attached = <<>>
        /\ ComponentSubscriptions(regs') \cap AllIds(subscribers') = {}
        /\ comp'.eventListeners = <<>>
        /\ comp'.stateSubscriptions = <<>> ]_vars

\* C23: when a hook of init (beforeInit, setup, render, bindEvents,
\* afterInit) raises, init() completes without rejecting, isInitialized stays
\* false, no 'init' component event is emitted and an 'error' component event
\* is emitted instead.
C23_InitErrorIsContained ==
  /\ [](comp.raises # "none" =>
          /\ ~comp.isInitialized
          /\ \A i \in DOMAIN log : log[i].type = "emitted" => log[i].event # "init"
          /\ \A i \in DOMAIN comp.calls : comp.calls[i].outcome # "rejected")
  /\ [][ (lastOp'.op = "resume" /\ lastOp'.fn = "init" /\ comp.calls[lastOp'.call].rejected) =>
           /\ comp'.calls[lastOp'.call].outcome = "resolved"
           /\ ~lastOp'.threw
           /\ ~comp'.isInitialized
           /\ Cardinality(EmittedIn(log', n', "error")) = 1
           /\ EmittedIn(log', n', "init") = {} ]_vars
  /\ [][ (lastOp'.op \in {"init", "resume"} /\ Times(log', comp.raises) > Times(log, comp.raises)) =>
           \E i \in DOMAIN comp'.calls :
             comp'.calls[i].rejected /\ comp'.calls[i].outcome = "pending" ]_vars

C23_Witness ==
  /\ lastOp.op = "resume" /\ lastOp.fn = "init"
  /\ comp.raises = "setup"
  /\ comp.calls[lastOp.call].outcome = "resolved"
  /\ EmittedIn(log, n, "error") # {}
  /\ \E c \in AllCallsIn(log, n) : log[c].callback = Fn("cbThrow")
  /\ ~comp.isInitialized

\* A snapshot (a copy of the root object) read in tree w at every depth.
DeepTree(w, snapshot) == [k \in DOMAIN snapshot |-> Deep(w, snapshot[k])]

\* C31: for every setState call, the prior snapshot of the appended history
\* entry equals the full tree immediately before the call, its post snapshot
\* equals the full tree immediately after the call, at every nesting depth,
\* and the entries recorded earlier are not altered by the call.
C31_Original ==
  [][ (lastOp'.op = "setState" /\ ~lastOp'.threw /\ Len(history') = Len(history) + 1) =>
        /\ DeepTree(WorldAfter, history'[Len(history')].oldState) = DeepTree(WorldBefore, state)
        /\ DeepTree(WorldAfter, history'[Len(history')].newState) = DeepTree(WorldAfter, state')
        /\ \A i \in DOMAIN history :
             /\ DeepTree(WorldAfter, history'[i].oldState) = DeepTree(WorldBefore, history[i].oldState)
             /\ DeepTree(WorldAfter, history'[i].newState) = DeepTree(WorldBefore, history[i].newState) ]_vars

\* C32: a silent setState(p, v, true) writes v at p and appends exactly one
\* history entry, whose post snapshot is the new root, but invokes no
\* subscriber of any path and leaves the subscriber map unchanged.
C32_SilentWriteNotifiesNobody ==
  [][ (lastOp'.op = "setState" /\ lastOp'.silent = Bool(TRUE) /\ ~IsBulk(lastOp')) =>
        /\ ~lastOp'.threw
        /\ getState(WorldAfter, lastOp'.key.v) = lastOp'.value
        /\ Len(history') = Len(history) + 1
        /\ history'[Len(history')].newState = state'
        /\ AllCallsIn(log', n') = {}
        /\ subscribers' = subscribers
        /\ Cardinality(WritesIn(log', n')) = 1 ]_vars

C32_Witness ==
  /\ lastOp.op = "setState" /\ lastOp.silent = Bool(TRUE)
  /\ lastOp.key = Str("currentSection")
  /\ MapHas(subscribers, "currentSection")
  /\ getState(World, "currentSection") = Str("about")
  /\ \E i \in DOMAIN history : history[i].oldState["currentSection"] = Str("hero")

\* C33: the writes computed(fn, deps, z) makes to z, at registration and on
\* every recomputation, notify no subscriber registered on z: in a step
\* (computed, or a setState that does not itself write z) in which the value
\* of z changes, no subscription of path z is invoked, be it a callback or
\* the recomputation of a computed value that lists z as a dependency.
C33_ComputedWritesAreSilent ==
  [][ \A f \in ComputedFns(regs') :
        (/\ lastOp'.op \in {"setState", "computed"}
         /\ lastOp'.op = "setState" => f.targetKey \notin WrittenPaths(lastOp')
         /\ Deep(WorldAfter, getState(WorldAfter, f.targetKey))
              # Deep(WorldBefore, getState(WorldBefore, f.targetKey))) =>
          /\ \A i \in AllCallsIn(log', n') : regs'[log'[i].id].key # f.targetKey
          /\ \A i \in WritesIn(log', n') :
               log'[i].key = Str(f.targetKey) => log'[i].silent ]_vars

\* A chain of two computed values: after a write to a dependency of the first,
\* the first is recomputed, the second (which depends on the first) is not.
C33_Witness ==
  /\ lastOp.op = "setState" /\ lastOp.key = Str("firstName")
  /\ \E f \in ComputedFns(regs) : f.targetKey = "fullName"
  /\ \E f \in ComputedFns(regs) : f.targetKey = "a.b" /\ f.dependencies = <<"fullName">>
  /\ \E i \in AllCallsIn(log, n) :
       IsUpdateComputed(log[i].callback) /\ log[i].callback.targetKey = "fullName"
  /\ getState(World, "fullName") = Str("Jane hero")
  /\ getState(World, "a.b") # Str("Jane hero")

\* The handlers of event name e in the registry ev, in insertion order.
Bucket(ev, e) == IF MapHas(ev, e) THEN MapGet(ev, e) ELSE <<>>
\* The earliest-registered handler of the bucket whose callback is cb.
Earliest(hs, cb) ==
  {hs[i].id : i \in {j \in DOMAIN hs : hs[j].callback = cb
                                     /\ \A m \in DOMAIN hs : hs[m].callback = cb => hs[j].id <= hs[m].id}}

\* C34: off(e, cb) and the thunk returned by on(e, cb) remove exactly one
\* registration, the earliest-registered one still present whose callback is
\* cb, from the persistent registry only: the other handlers of e stay in
\* their order, the other names and the once registry are untouched, an
\* unknown name or callback changes nothing; and an emit(e) invokes cb once
\* for each registration of cb that is present.
C34_OffRemovesEarliestMatchOnly ==
  /\ [][ (lastOp'.op = "off" \/ (lastOp'.op = "thunk" /\ lastOp'.kind = "on")) =>
           /\ ~lastOp'.threw
           /\ onceEvents' = onceEvents
           /\ subscribers' = subscribers
           /\ \A e \in {events[i].k : i \in DOMAIN events} \ {lastOp'.key} :
                MapHas(events', e) /\ MapGet(events', e) = MapGet(events, e)
           /\ Bucket(events', lastOp'.key)
                = SelectSeq(Bucket(events, lastOp'.key),
                            LAMBDA h : h.id \notin Earliest(Bucket(events, lastOp'.key), lastOp'.callback))
           /\ Earliest(Bucket(events, lastOp'.key), lastOp'.callback) = {} => events' = events
           /\ MapHas(events', lastOp'.key) => Bucket(events', lastOp'.key) # <<>> ]_vars
  /\ [][ lastOp'.op = "emit" =>
           \A cb \in {Fn("cbA"), Fn("cbB"), Fn("cbThrow")} :
             Cardinality({c \in AllCallsIn(log', n') : log'[c].callback = cb})
               = Cardinality(ListenersOf(events, onceEvents, lastOp'.key, cb)) ]_vars

\* on(e1, cbA) twice, one off(e1, cbA), then emit(e1): cbA is invoked once,
\* through the later registration.
C34_Witness ==
  /\ lastOp.op = "emit" /\ lastOp.key = "e1"
  /\ \E a, b \in DOMAIN regs :
       /\ a < b
       /\ regs[a].kind = "on" /\ regs[b].kind = "on"
       /\ regs[a].key = "e1" /\ regs[b].key = "e1"
       /\ regs[a].obj.callback = Fn("cbA") /\ regs[b].obj.callback = Fn("cbA")
       /\ regs[a].removed # 0 /\ regs[a].removed < n
       /\ regs[b].removed = 0
       /\ \A c \in AllCallsIn(log, n) : log[c].callback = Fn("cbA") => log[c].id = b
       /\ Cardinality({c \in AllCallsIn(log, n) : log[c].callback = Fn("cbA")}) = 1
  /\ Cardinality({i \in DOMAIN regs : regs[i].kind = "on" /\ regs[i].key = "e1"
                                      /\ regs[i].obj.callback = Fn("cbA")}) = 2

\* The event names the callers use, and one that is never registered.
EventNames == {"e1", "e2", "e3"}

\* C35: between top-level calls, every event name present in the persistent
\* or the once registry has at least one registration and every path present
\* in the subscriber map has at least one subscription; getListenerCount(e)
\* is 0 exactly when getEvents() does not list e.
C35_NoDeadBuckets ==
  /\ \A i \in DOMAIN events : Len(events[i].v) > 0
  /\ \A i \in DOMAIN onceEvents : Len(onceEvents[i].v) > 0
  /\ \A i \in DOMAIN subscribers : Len(subscribers[i].v) > 0
  /\ \A e \in EventNames \cup getEvents(World) :
       getListenerCount(World, e) = 0 <=> e \notin getEvents(World)

\* off has removed the last listener of a name: the name is gone.
C35_Witness ==
  /\ lastOp.op = "off" /\ lastOp.key = "e1"
  /\ \E i \in DOMAIN regs : regs[i].kind = "on" /\ regs[i].key = "e1" /\ regs[i].removed = n
  /\ "e1" \notin getEvents(World)
  /\ getListenerCount(World, "e1") = 0

\* The tree { k1: { k2: ... value } } written out as Deep writes it.
RECURSIVE Nest(_, _)
Nest(keys, value) ==
  IF Len(keys) = 0 THEN value
  ELSE [kind |-> "Object", props |-> [k \in {Head(keys)} |-> Nest(Tail(keys), value)]]

\* The value found at the first k segments of a path, and whether the write
\* can descend through it: it is a truthy value of type object.
AtPrefix(w, keys, k) == ReducePath(w, Root, SubSeq(keys, 1, k))
Passable(v) == Truthy(v) /\ IsObjectType(v)

\* C36: a write through a path replaces the first intermediate segment that
\* is absent or holds no object by a fresh mapping that holds nothing but the
\* rest of the path, so after setState("a.b", v) with a scalar a, getState("a")
\* is a mapping whose only key is b; an intermediate segment that holds an
\* object stays the same object and keeps its other keys with their values,
\* and so does the root.
C36_WriteThroughCoercesSegments ==
  [][ (lastOp'.op = "setState" /\ ~IsBulk(lastOp') /\ ~lastOp'.threw) =>
        LET keys == split(lastOp'.key.v)
            value == lastOp'.value
        IN /\ getState(WorldAfter, lastOp'.key.v) = value
           /\ \A k \in 0..(Len(keys) - 1) :
                (\A j \in 1..k : Passable(AtPrefix(WorldBefore, keys, j))) =>
                  LET old == AtPrefix(WorldBefore, keys, k)
                      new == AtPrefix(WorldAfter, keys, k)
                  IN /\ new = old
                     /\ DOMAIN Props(WorldAfter, new.ref)
                          = DOMAIN Props(WorldBefore, old.ref) \cup {keys[k + 1]}
                     /\ \A s \in DOMAIN Props(WorldBefore, old.ref) \ {keys[k + 1]} :
                          Deep(WorldAfter, Props(WorldAfter, new.ref)[s])
                            = Deep(WorldBefore, Props(WorldBefore, old.ref)[s])
                     /\ (k + 1 < Len(keys) /\ ~Passable(AtPrefix(WorldBefore, keys, k + 1))) =>
                          Deep(WorldAfter, AtPrefix(WorldAfter, keys, k + 1))
                            = Nest(SubSeq(keys, k + 2, Len(keys)), value) ]_vars

\* theme holds the string 'dark'; after setState('theme.mode', 'about') it is
\* a mapping whose only key is mode.
C36_Witness ==
  /\ lastOp.op = "setState" /\ lastOp.key = Str("theme.mode")
  /\ \E i \in DOMAIN history : history[i].oldState["theme"] = Str("dark")
  /\ Deep(World, getState(World, "theme")) = Nest(<<"mode">>, Str("about"))
  /\ DOMAIN Props(World, getState(World, "theme").ref) = {"mode"}

\* C37: a registration made with once(e, cb) is never discarded without
\* having been invoked, unless it is removed explicitly (offOnce through its
\* thunk, or removeAllListeners): a once registration that is no longer in
\* the once registry and was not removed explicitly has been invoked, also
\* when it was made from inside a listener during an emit(e).
C37_Original ==
  \A r \in DOMAIN regs :
    (regs[r].kind = "once" /\ r \notin AllIds(onceEvents) /\ regs[r].removed = 0) =>
      TotalCalls(log, r) # {}

\* The setState statements an updateFn executes, nested batches included, in
\* order, and whether it raises.
RECURSIVE Flat(_)
Flat(body) ==
  IF Len(body) = 0 THEN [stmts |-> <<>>, raised |-> FALSE]
  ELSE IF Head(body).op = "throw" THEN [stmts |-> <<>>, raised |-> TRUE]
  ELSE IF Head(body).op = "batch"
  THEN LET inner == Flat(Head(body).body)
           rest == Flat(Tail(body))
       IN IF inner.raised THEN inner
          ELSE [stmts |-> inner.stmts \o rest.stmts, raised |-> rest.raised]
  ELSE LET rest == Flat(Tail(body))
       IN [stmts |-> <<Head(body)>> \o rest.stmts, raised |-> rest.raised]
FlatNotifiedPaths(body) ==
  {Flat(body).stmts[i].key.v : i \in {j \in DOMAIN Flat(body).stmts : NotSilent(Flat(body).stmts[j].silent)}}
HasNested(body) == \E i \in DOMAIN body : body[i].op = "batch"

\* The finally blocks entered during top-level call k; the last one is that
\* of the outermost batch.
FinallyIn(lg, k) == {i \in DOMAIN lg : lg[i].type = "finally" /\ lg[i].n = k}

\* C38: a batch started inside the updateFn of another batch notifies no
\* subscriber when it ends: every subscriber call of the step comes after the
\* finally block of the outermost batch is entered; each path changed
\* non-silently, in the inner or the outer batch, is notified exactly once
\* with its final value; after the outermost batch the method of the class is
\* in place again, and a later setState notifies as usual.
C38_NestedBatchDefersToOutermost ==
  /\ [][ (lastOp'.op = "batch" /\ HasNested(lastOp'.body)) =>
           /\ \A c \in AllCallsIn(log', n') : \A f \in FinallyIn(log', n') : f < c
           /\ Cardinality(FinallyIn(log', n')) >= 2
           /\ NotifiedOnceWithFinalValue(FlatNotifiedPaths(lastOp'.body), n')
           /\ lastOp'.threw = Flat(lastOp'.body).raised
           /\ notify' = <<>> ]_vars
  /\ [][ (IsSinglePath(lastOp') /\ NotSilent(lastOp'.silent)) =>
           \A id \in Ids(subscribers, lastOp'.key.v) :
             /\ Cardinality(CallsIn(log', n', id)) = 1
             /\ \A i \in CallsIn(log', n', id) :
                  log'[i].args = <<lastOp'.value, lastOp'.key>> ]_vars

\* The outer batch writes currentSection, the inner batch writes a.b and
\* currentSection again, the outer batch then writes a.b: the subscribers of
\* both paths are called once, with the last values.
C38_Witness ==
  /\ lastOp.op = "batch" /\ HasNested(lastOp.body)
  /\ Len(Flat(lastOp.body).stmts) = 4
  /\ \E c \in AllCallsIn(log, n) : log[c].args = <<Num(2), Str("currentSection")>>
  /\ \E c \in AllCallsIn(log, n) : log[c].args = <<Num(2), Str("a.b")>>
  /\ Cardinality(AllCallsIn(log, n)) = 2
  /\ Cardinality(FinallyIn(log, n)) = 2
  /\ notify = <<>>

\* The init() calls made on the component, the constructor's included.
InitCalls == {i \in DOMAIN comp.calls : comp.calls[i].fn = "init"}

\* C39: at any time at most one typing timer is pending for a Hero
\* component, across setup, the immediate and the later notifications of
\* "currentSection" and "preferences.reducedMotion", pauseTyping, resumeTyping
\* and beforeDestroy.  Stated for the components on which init() has been
\* called at most once.
C39_Original ==
  Cardinality(InitCalls) <= 1 => Cardinality(comp.hero.timers) <= 1

====
